---------------------------- MODULE Spec2Model ----------------------------
(***************************************************************************)
(* PeerFact backend (src/backend/server.py): the reputation-weighted       *)
(* verdict engine, the reputation feedback applied by add_verification and *)
(* the handlers that read verdicts.                                        *)
(*                                                                         *)
(* Numbers.  Reputations are Python floats that only ever move in steps of *)
(* 0.1 and 0.05 from 1.0; they are kept here as integers counting          *)
(* twentieths (1.0 = 20, +0.1 = +2, -0.05 = -1).  A confidence is a float  *)
(* rounded to 3 decimals; it is kept as an integer counting thousandths.   *)
(*                                                                         *)
(* Interleaving.  The handlers are coroutines; another request can run at  *)
(* every await on the data store.  A request in flight occupies a slot of  *)
(* `req` and every action below is the code between two awaits.  Reads of  *)
(* documents that are never deleted or changed (the claim and user lookups *)
(* that validate a request) are folded into the step of the write or read  *)
(* that follows them.                                                      *)
(***************************************************************************)
EXTENDS Integers, Sequences, FiniteSets, TLC

\* ------------------------------------------------------------------------
\* Bounds of the model
\* ------------------------------------------------------------------------
MaxVerifs == 2          \* verification requests accepted by Spec
MaxSampleVerifs == 3    \* length of the ledgers SpecVerdict starts from
MaxDriftVerifs == 25    \* verification requests accepted by SpecDrift
MaxBackings == 4        \* of which by the backer
MaxBoardVerifs == 2     \* length of the ledgers SpecBoard starts from

UserIds  == {"u1", "u2"}        \* uuid4 values handed to users
ClaimIds == {"c1"}              \* uuid4 values handed to claims
BadId    == "invalid-id"        \* an id that no document ever carries
ClaimAuthorIds == {"u1", BadId} \* the author_id values sent to create_claim
Slots    == {"r1", "r2"}        \* the requests that can be in flight together

\* ------------------------------------------------------------------------
\* Program constants
\* ------------------------------------------------------------------------
InitialReputation == 20     \* "reputation": 1.0
AlignedDelta      == 2      \* {"$inc": {"reputation": 0.1}}
MisalignedDelta   == -1     \* {"$inc": {"reputation": -0.05}}
DefaultReputation == 20     \* get_user_rep: return 1.0
ZeroTotalWeight   == 20     \* sum(weights.values()) or 1.0
ToListLimit       == 1000   \* .to_list(1000)
ClaimListLimit    == 100    \* list_claims: .to_list(100)
UserListLimit     == 1000   \* leaderboard_users: db.users ... .to_list(1000)
VerifListLimit    == 5000   \* leaderboards: db.verifications ... .to_list(5000)

Stances == {"support", "refute", "unclear"}
\* weights = {"support": 0.0, "refute": 0.0, "unclear": 0.0}: the key order
StanceOrder == <<"support", "refute", "unclear">>

VARIABLES
    users,          \* db.users: id -> document
    claims,         \* db.claims: id -> document
    verifications,  \* db.verifications, in insertion order
    req,            \* the requests in flight, one per slot
    response,       \* the response sent last
    blockchain      \* blockchain_service.blockchain, the BlockchainService

vars == <<users, claims, verifications, req, response, blockchain>>


\* ------------------------------------------------------------------------
\* Utilities (server.py, "Utilities")
\* ------------------------------------------------------------------------
Abs(x) == IF x < 0 THEN -x ELSE x

\* round(x, 3) of the float x = num / den, in thousandths: the nearest
\* thousandth, an exact half going to the even neighbour.
Round3(num, den) ==
    LET n == IF den < 0 THEN -num ELSE num
        d == Abs(den)
        q == (1000 * n) \div d
        r == (1000 * n) - q * d
    IN  IF 2 * r < d THEN q
        ELSE IF 2 * r > d THEN q + 1
        ELSE IF q % 2 = 0 THEN q ELSE q + 1

\* variant: an author that cannot be resolved weighs nothing
get_user_rep_Weightless(store, user_id) ==
    IF user_id \in DOMAIN store /\ "reputation" \in DOMAIN store[user_id]
    THEN store[user_id].reputation
    ELSE 0

\* get_user / get_user_rep: 1.0 when no user document has this id, and
\* user.get("reputation", 1.0) when the document has no such field
get_user_rep(store, user_id) ==
    IF user_id \in DOMAIN store /\ "reputation" \in DOMAIN store[user_id]
    THEN store[user_id].reputation
    ELSE DefaultReputation

\* variant: one verification per author, the first one the ledger holds
FindVerifications_Distinct(ledger, claim_id) ==
    LET first(i) == \A j \in 1..(i - 1) :
                        ~(ledger[j].claim_id = claim_id
                            /\ ledger[j].author_id = ledger[i].author_id)
        kept == {i \in 1..Len(ledger) : ledger[i].claim_id = claim_id /\ first(i)}
        nth[k \in 1..Cardinality(kept)] ==
            CHOOSE i \in kept : Cardinality({j \in kept : j < i}) = k - 1
    IN  [k \in 1..Cardinality(kept) |-> ledger[nth[k]]]

\* db.verifications.find({"claim_id": claim_id}).to_list(1000)
FindVerifications(ledger, claim_id) ==
    LET found == SelectSeq(ledger, LAMBDA v : v.claim_id = claim_id)
    IN  IF Len(found) > ToListLimit THEN SubSeq(found, 1, ToListLimit) ELSE found

ZeroWeights == [s \in Stances |-> 0]

\* variant: counts[v["stance"]] = 1 in place of += 1
AddWeight_CountSet(acc, v, rep) ==
    [weights |-> [acc.weights EXCEPT ![v.stance] = @ + rep],
     counts  |-> [acc.counts  EXCEPT ![v.stance] = 1]]

\* one turn of the loop of compute_verdict, rep being the awaited reputation
AddWeight(acc, v, rep) ==
    [weights |-> [acc.weights EXCEPT ![v.stance] = @ + rep],
     counts  |-> [acc.counts  EXCEPT ![v.stance] = @ + 1]]

\* max(weights, key=weights.get): the first key, in the dictionary's order,
\* whose weight no other key exceeds
MaxKey(weights) ==
    LET best(i) == \A j \in 1..Len(StanceOrder) :
                       /\ weights[StanceOrder[j]] <= weights[StanceOrder[i]]
                       /\ (j < i => weights[StanceOrder[j]] < weights[StanceOrder[i]])
    IN  StanceOrder[CHOOSE i \in 1..Len(StanceOrder) : best(i)]

\* label_map
LabelOf(stance) ==
    CASE stance = "support" -> "Mostly True"
      [] stance = "refute"  -> "Mostly False"
      [] OTHER              -> "Unclear"

Unverified ==
    [label |-> "Unverified", confidence |-> 0, support |-> 0, refute |-> 0, unclear |-> 0]

\* variant: max(counts, key=counts.get), the unweighted majority
FinishVerdict_ByCount(acc) ==
    LET label_key == MaxKey(acc.counts)
        sum       == acc.weights["support"] + acc.weights["refute"] + acc.weights["unclear"]
        total     == IF sum = 0 THEN ZeroTotalWeight ELSE sum
    IN  [label      |-> LabelOf(label_key),
         confidence |-> Round3(acc.weights[label_key], total),
         support    |-> acc.counts["support"],
         refute     |-> acc.counts["refute"],
         unclear    |-> acc.counts["unclear"]]

\* compute_verdict after its loop: the label, the confidence and the counts
FinishVerdict(acc) ==
    LET label_key == MaxKey(acc.weights)
        sum       == acc.weights["support"] + acc.weights["refute"] + acc.weights["unclear"]
        total     == IF sum = 0 THEN ZeroTotalWeight ELSE sum
    IN  [label      |-> LabelOf(label_key),
         confidence |-> Round3(acc.weights[label_key], total),
         support    |-> acc.counts["support"],
         refute     |-> acc.counts["refute"],
         unclear    |-> acc.counts["unclear"]]

RECURSIVE Accumulate(_, _, _)
\* the loop of compute_verdict over verifs, every reputation read from store
Accumulate(acc, verifs, store) ==
    IF verifs = <<>> THEN acc
    ELSE Accumulate(AddWeight(acc, Head(verifs), get_user_rep(store, Head(verifs).author_id)),
                    Tail(verifs), store)

\* variant: no early return on an empty list
VerdictOver_NoEmptyGuard(verifs, store) ==
    FinishVerdict(Accumulate([weights |-> ZeroWeights, counts |-> ZeroWeights],
                             verifs, store))

\* variant: weights = {} filled as the stances are met, so that max() goes
\* through the stances in the order of their first record
VerdictOver_SeenOrder(verifs, store) ==
    IF verifs = <<>> THEN Unverified
    ELSE LET acc      == Accumulate([weights |-> ZeroWeights, counts |-> ZeroWeights],
                                    verifs, store)
             first(st) == CHOOSE i \in 1..Len(verifs) :
                              /\ verifs[i].stance = st
                              /\ \A j \in 1..(i - 1) : verifs[j].stance # st
             seen     == {verifs[i].stance : i \in 1..Len(verifs)}
             key      == CHOOSE st \in seen :
                             \A t \in seen :
                                 /\ acc.weights[t] <= acc.weights[st]
                                 /\ (first(t) < first(st) => acc.weights[t] < acc.weights[st])
         IN  [FinishVerdict(acc) EXCEPT !.label = LabelOf(key)]

\* compute_verdict on a list of verifications, run against one store state
VerdictOver(verifs, store) ==
    IF verifs = <<>> THEN Unverified
    ELSE FinishVerdict(Accumulate([weights |-> ZeroWeights, counts |-> ZeroWeights],
                                  verifs, store))

\* compute_verdict(claim_id) run with no other request in between
compute_verdict(claim_id) ==
    VerdictOver(FindVerifications(verifications, claim_id), users)

\* align_map.get(current.get("label", "Unclear"), "unclear")
AlignKey(label) ==
    CASE label = "Mostly True"  -> "support"
      [] label = "Mostly False" -> "refute"
      [] OTHER                  -> "unclear"


\* ------------------------------------------------------------------------
\* State
\* ------------------------------------------------------------------------
NoVerdict == [label |-> "", confidence |-> 0, support |-> 0, refute |-> 0, unclear |-> 0]
NoAcc     == [weights |-> ZeroWeights, counts |-> ZeroWeights]

\* a slot that holds no request; doc_id stands for the "id" of the
\* verification document the request inserted: its position in the ledger
Idle ==
    [pc |-> "idle", op |-> "", claim_id |-> "", author_id |-> "", stance |-> "",
     body_author_id |-> "", doc_id |-> 0, username |-> "", email |-> "", verifs |-> <<>>, i |-> 0, acc |-> NoAcc, current |-> NoVerdict,
     todo |-> <<>>, out |-> <<>>]

\* the user document of users_bootstrap
NewUser == [reputation |-> InitialReputation]

\* the claim document of create_claim, without the text and the AI fields
NewClaim(author_id) ==
    [author_id |-> author_id, support_count |-> 0, refute_count |-> 0,
     unclear_count |-> 0, confidence |-> 0]

\* variant: every document is filed under the first claim
NewVerification_FirstClaim(claim_id, author_id, stance) ==
    [claim_id |-> "c1", author_id |-> author_id, stance |-> stance]

\* the verification document of add_verification
NewVerification(claim_id, author_id, stance) ==
    [claim_id |-> claim_id, author_id |-> author_id, stance |-> stance]

\* a response: the handler and the claim of the request it answers, the
\* status code and, from claim_verdict, the verdict
Response(op, claim_id, status, body) ==
    [op |-> op, claim_id |-> claim_id, status |-> status, body |-> body]

\* raise HTTPException(status_code=...)
Reject(op, claim_id, status) == Response(op, claim_id, status, NoVerdict)

NoResponse == Response("", "", 0, NoVerdict)

\* the server process never imports blockchain_service: no instance exists
NotLoaded == [chain |-> <<>>, pending_transactions |-> <<>>]

Init ==
    /\ users = <<>>
    /\ claims = <<>>
    /\ verifications = <<>>
    /\ req = [s \in Slots |-> Idle]
    /\ response = NoResponse
    /\ blockchain = NotLoaded

\* variant: {"$set": {"reputation": 1.0 + delta}}, the update computed
\* from the default and not from the stored value
IncReputation_Set(store, user_id, delta) ==
    IF user_id \in DOMAIN store
    THEN [store EXCEPT ![user_id].reputation = InitialReputation + delta]
    ELSE store

\* db.users.update_one({"id": user_id}, {"$inc": {"reputation": delta}})
IncReputation(store, user_id, delta) ==
    IF user_id \in DOMAIN store
    THEN [store EXCEPT ![user_id].reputation = @ + delta]
    ELSE store

\* ------------------------------------------------------------------------
\* Handlers that take one step
\* ------------------------------------------------------------------------
\* str(uuid.uuid4()): an id no document carries yet
FreshId(pool, used) == CHOOSE id \in pool \ used : TRUE

\* POST /users/bootstrap
users_bootstrap ==
    /\ UserIds \ DOMAIN users # {}
    /\ LET id == FreshId(UserIds, DOMAIN users)
       IN  users' = [u \in DOMAIN users \cup {id} |->
                        IF u = id THEN NewUser ELSE users[u]]
    /\ response' = Response("users_bootstrap", "", 200, NoVerdict)
    /\ UNCHANGED <<claims, verifications, req, blockchain>>

\* the Authorization header: a bearer token, whether jwt.decode accepts it
\* (signature and expiry) and its "sub"
Token(sub, ok) == [given |-> TRUE, sub |-> sub, ok |-> ok]

\* a request without credentials
NoToken == [given |-> FALSE, sub |-> "", ok |-> FALSE]

\* the None of get_current_user and get_user, as an id
NoUser == ""

\* get_current_user: the id of the user of the token; None without
\* credentials, on a JWTError and when no user has the id of "sub"
get_current_user(token) ==
    IF ~token.given THEN NoUser
    ELSE IF ~token.ok THEN NoUser
    ELSE IF token.sub \notin DOMAIN users THEN NoUser
    ELSE token.sub

\* variant: a body author_id that names a user wins over the token
ResolveAuthor_BodyFirst(token, author_id) ==
    IF author_id \in DOMAIN users THEN author_id
    ELSE get_current_user(token)

\* "If user is authenticated, use their ID, otherwise validate the provided
\* author_id": the author of the new document, NoUser where the handler
\* raises 400 "Invalid author_id"
ResolveAuthor(token, author_id) ==
    IF get_current_user(token) # NoUser THEN get_current_user(token)
    ELSE IF author_id \in DOMAIN users THEN author_id
    ELSE NoUser

\* POST /claims: the author is resolved, the claim is inserted under an id
\* of the pool
create_claim_in(pool, token, author_id) ==
    IF ResolveAuthor(token, author_id) = NoUser
    THEN /\ response' = Reject("create_claim", "", 400)
         /\ UNCHANGED <<users, claims, verifications, req, blockchain>>
    ELSE /\ pool \ DOMAIN claims # {}
         /\ LET id == FreshId(pool, DOMAIN claims)
            IN  claims' = [c \in DOMAIN claims \cup {id} |->
                              IF c = id THEN NewClaim(ResolveAuthor(token, author_id))
                              ELSE claims[c]]
         /\ response' = Response("create_claim", "", 200, NoVerdict)
         /\ UNCHANGED <<users, verifications, req, blockchain>>

\* POST /claims with the ids of ClaimIds
create_claim_with(token, author_id) == create_claim_in(ClaimIds, token, author_id)

\* POST /claims, no token
create_claim(author_id) == create_claim_with(NoToken, author_id)

\* ------------------------------------------------------------------------
\* compute_verdict, await by await, inside the request of slot s
\* ------------------------------------------------------------------------
\* list_claims: the row of a claim, its four verdict fields overwritten
EnrichedClaim(claim_id, verdict) ==
    [id            |-> claim_id,
     author_id     |-> claims[claim_id].author_id,
     support_count |-> verdict.support,
     refute_count  |-> verdict.refute,
     unclear_count |-> verdict.unclear,
     confidence    |-> verdict.confidence]

\* get_claim and get_detailed_claim:
\* {"claim": claim, "verifications": verifs, "verdict": verdict}
ClaimDetail(claim_id, verifs, verdict) ==
    [claim |-> claims[claim_id], verifications |-> verifs, verdict |-> verdict]

\* compute_verdict has returned `verdict` to the request r of slot s:
\* add_verification goes on to its $inc, claim_verdict, get_claim and
\* get_detailed_claim return, list_claims appends a row and goes on to the
\* next claim
Computed(s, r, verdict) ==
    CASE r.op = "verify" ->
             /\ req' = [req EXCEPT ![s] =
                           [r EXCEPT !.pc = "update", !.current = verdict,
                                     !.verifs = <<>>, !.i = 0, !.acc = NoAcc]]
             /\ UNCHANGED response
      [] r.op = "verdict" ->
             /\ req' = [req EXCEPT ![s] = Idle]
             /\ response' = Response("claim_verdict", r.claim_id, 200, verdict)
      [] r.op \in {"get_claim", "get_detailed_claim"} ->
             /\ req' = [req EXCEPT ![s] = Idle]
             /\ response' = Response(r.op, r.claim_id, 200,
                                     ClaimDetail(r.claim_id, r.out, verdict))
      [] r.op = "list_claims" ->
             LET out == Append(r.out, EnrichedClaim(r.claim_id, verdict))
             IN  IF Len(r.todo) > 1
                 THEN /\ req' = [req EXCEPT ![s] =
                                    [r EXCEPT !.pc = "fetch", !.claim_id = r.todo[2],
                                              !.todo = Tail(r.todo), !.out = out,
                                              !.verifs = <<>>, !.i = 0, !.acc = NoAcc]]
                      /\ UNCHANGED response
                 ELSE /\ req' = [req EXCEPT ![s] = Idle]
                      /\ response' = Response("list_claims", "", 200, out)

\* variant: a read that does not see the newest write to the ledger
Fetch_BeforeLast(s, r) ==
    LET seen   == SubSeq(verifications, 1, Len(verifications) - 1)
        verifs == FindVerifications(seen, r.claim_id)
    IN  IF verifs = <<>> THEN Computed(s, r, Unverified)
        ELSE /\ req' = [req EXCEPT ![s] =
                           [r EXCEPT !.pc = "rep", !.verifs = verifs, !.i = 1, !.acc = NoAcc]]
             /\ UNCHANGED response

\* variant: the verdict that judges a verification is computed from the
\* verifications of the other authors
Fetch_Others(s, r) ==
    LET found  == FindVerifications(verifications, r.claim_id)
        verifs == IF r.op = "verify"
                  THEN SelectSeq(found, LAMBDA v : v.author_id # r.author_id)
                  ELSE found
    IN  IF verifs = <<>> THEN Computed(s, r, Unverified)
        ELSE /\ req' = [req EXCEPT ![s] =
                           [r EXCEPT !.pc = "rep", !.verifs = verifs, !.i = 1, !.acc = NoAcc]]
             /\ UNCHANGED response

\* verifs = await db.verifications.find(...).to_list(1000), and the
\* early return on an empty list
Fetch(s, r) ==
    LET verifs == FindVerifications(verifications, r.claim_id)
    IN  IF verifs = <<>> THEN Computed(s, r, Unverified)
        ELSE /\ req' = [req EXCEPT ![s] =
                           [r EXCEPT !.pc = "rep", !.verifs = verifs, !.i = 1, !.acc = NoAcc]]
             /\ UNCHANGED response

ComputeFetch(s) ==
    /\ req[s].pc = "fetch"
    /\ Fetch(s, req[s])
    /\ UNCHANGED <<users, claims, verifications, blockchain>>

\* variant: the last turn also stores the counts in the claim document
ComputeRep_Caching(s) ==
    LET r   == req[s]
        v   == r.verifs[r.i]
        acc == AddWeight(r.acc, v, get_user_rep(users, v.author_id))
    IN  /\ r.pc = "rep"
        /\ IF r.i < Len(r.verifs)
           THEN /\ req' = [req EXCEPT ![s] = [r EXCEPT !.i = @ + 1, !.acc = acc]]
                /\ UNCHANGED <<response, claims, blockchain>>
           ELSE /\ Computed(s, r, FinishVerdict(acc))
                /\ claims' = [claims EXCEPT ![r.claim_id].support_count =
                                                FinishVerdict(acc).support]
        /\ UNCHANGED <<users, verifications, blockchain>>

\* rep = await get_user_rep(v["author_id"]) and the two += of one turn;
\* after the last turn the rest of compute_verdict runs without an await
ComputeRep(s) ==
    LET r   == req[s]
        v   == r.verifs[r.i]
        acc == AddWeight(r.acc, v, get_user_rep(users, v.author_id))
    IN  /\ r.pc = "rep"
        /\ IF r.i < Len(r.verifs)
           THEN /\ req' = [req EXCEPT ![s] = [r EXCEPT !.i = @ + 1, !.acc = acc]]
                /\ UNCHANGED response
           ELSE Computed(s, r, FinishVerdict(acc))
        /\ UNCHANGED <<users, claims, verifications, blockchain>>

\* ------------------------------------------------------------------------
\* POST /claims/{claim_id}/verify, no token
\* ------------------------------------------------------------------------
\* variant: the author is looked up after the insert
add_verification_LateCheck(s, claim_id, author_id, stance) ==
    /\ req[s].pc = "idle"
    /\ IF claim_id \notin DOMAIN claims
       THEN /\ response' = Reject("add_verification", claim_id, 404)
            /\ UNCHANGED <<users, claims, verifications, req, blockchain>>
       ELSE /\ verifications' = Append(verifications,
                                       NewVerification(claim_id, author_id, stance))
            /\ IF author_id \notin DOMAIN users
               THEN /\ response' = Reject("add_verification", claim_id, 400)
                    /\ UNCHANGED <<users, claims, req, blockchain>>
               ELSE /\ req' = [req EXCEPT ![s] =
                                  [Idle EXCEPT !.pc = "fetch", !.op = "verify",
                                               !.claim_id = claim_id,
                                               !.author_id = author_id,
                                               !.body_author_id = author_id,
                                               !.stance = stance]]
                    /\ UNCHANGED <<users, claims, response, blockchain>>

\* variant: the penalty is charged with the insert, the feedback follows
add_verification_with_Upfront(s, token, claim_id, author_id, stance) ==
    /\ req[s].pc = "idle"
    /\ IF claim_id \notin DOMAIN claims
       THEN /\ response' = Reject("add_verification", claim_id, 404)
            /\ UNCHANGED <<users, claims, verifications, req, blockchain>>
       ELSE IF ResolveAuthor(token, author_id) = NoUser
       THEN /\ response' = Reject("add_verification", claim_id, 400)
            /\ UNCHANGED <<users, claims, verifications, req, blockchain>>
       ELSE /\ verifications' = Append(verifications,
                                       NewVerification(claim_id,
                                                       ResolveAuthor(token, author_id),
                                                       stance))
            /\ users' = [users EXCEPT ![ResolveAuthor(token, author_id)].reputation =
                                          @ + MisalignedDelta]
            /\ req' = [req EXCEPT ![s] =
                          [Idle EXCEPT !.pc = "fetch", !.op = "verify",
                                       !.claim_id = claim_id,
                                       !.author_id = ResolveAuthor(token, author_id),
                                       !.body_author_id = author_id,
                                       !.doc_id = Len(verifications) + 1,
                                       !.stance = stance]]
            /\ UNCHANGED <<claims, response, blockchain>>

\* the lookup of the claim, the author resolved, then the insert
add_verification_with(s, token, claim_id, author_id, stance) ==
    /\ req[s].pc = "idle"
    /\ IF claim_id \notin DOMAIN claims
       THEN /\ response' = Reject("add_verification", claim_id, 404)
            /\ UNCHANGED <<users, claims, verifications, req, blockchain>>
       ELSE IF ResolveAuthor(token, author_id) = NoUser
       THEN /\ response' = Reject("add_verification", claim_id, 400)
            /\ UNCHANGED <<users, claims, verifications, req, blockchain>>
       ELSE /\ verifications' = Append(verifications,
                                       NewVerification(claim_id,
                                                       ResolveAuthor(token, author_id),
                                                       stance))
            /\ req' = [req EXCEPT ![s] =
                          [Idle EXCEPT !.pc = "fetch", !.op = "verify",
                                       !.claim_id = claim_id,
                                       !.author_id = ResolveAuthor(token, author_id),
                                       !.body_author_id = author_id,
                                       !.doc_id = Len(verifications) + 1,
                                       !.stance = stance]]
            /\ UNCHANGED <<users, claims, response, blockchain>>

\* POST /claims/{claim_id}/verify, no token
add_verification(s, claim_id, author_id, stance) ==
    add_verification_with(s, NoToken, claim_id, author_id, stance)

\* variant: the bonus scaled by the confidence of the verdict
Feedback_Scaled(stance, current) ==
    IF stance = AlignKey(current.label)
    THEN (IF current.confidence >= 750 THEN AlignedDelta ELSE AlignedDelta - 1)
    ELSE MisalignedDelta

\* variant: a penalty as large as the bonus
Feedback_Symmetric(stance, current) ==
    IF stance = AlignKey(current.label) THEN AlignedDelta ELSE -AlignedDelta

\* the delta of the "reputation tweak"
Feedback(stance, current) ==
    IF stance = AlignKey(current.label) THEN AlignedDelta ELSE MisalignedDelta

\* variant: the counts of the verdict are also written to the claim document
ApplyFeedback_Denormalised(s) ==
    /\ req[s].pc = "update"
    /\ users' = IncReputation(users, req[s].author_id,
                              Feedback(req[s].stance, req[s].current))
    /\ claims' = [claims EXCEPT ![req[s].claim_id] =
                      [@ EXCEPT !.support_count = req[s].current.support,
                                !.refute_count  = req[s].current.refute,
                                !.unclear_count = req[s].current.unclear]]
    /\ req' = [req EXCEPT ![s] = Idle]
    /\ response' = Response("add_verification", req[s].claim_id, 200, NoVerdict)
    /\ UNCHANGED <<verifications, blockchain>>

\* the $inc after compute_verdict, then the handler returns the document
ApplyFeedback(s) ==
    /\ req[s].pc = "update"
    /\ users' = IncReputation(users, req[s].author_id,
                              Feedback(req[s].stance, req[s].current))
    /\ req' = [req EXCEPT ![s] = Idle]
    /\ response' = Response("add_verification", req[s].claim_id, 200, NoVerdict)
    /\ UNCHANGED <<claims, verifications, blockchain>>

\* the caller abandons a record_verification that is suspended at an await
\* after its insert: the coroutine is cancelled there and runs no further
Abandon(s) ==
    /\ req[s].op = "verify"
    /\ req[s].pc \in {"fetch", "rep", "update"}
    /\ req' = [req EXCEPT ![s] = Idle]
    /\ UNCHANGED <<users, claims, verifications, response, blockchain>>

\* ------------------------------------------------------------------------
\* GET /claims/{claim_id}/verdict
\* ------------------------------------------------------------------------
claim_verdict(s, claim_id) ==
    /\ req[s].pc = "idle"
    /\ IF claim_id \notin DOMAIN claims
       THEN /\ response' = Reject("claim_verdict", claim_id, 404)
            /\ UNCHANGED req
       ELSE Fetch(s, [Idle EXCEPT !.op = "verdict", !.claim_id = claim_id])
    /\ UNCHANGED <<users, claims, verifications, blockchain>>

\* ------------------------------------------------------------------------
\* GET /claims/{claim_id}, GET /claims/{claim_id}/detailed, GET /claims
\* ------------------------------------------------------------------------
\* .sort("created_at", -1) on the verifications of a claim
NewestFirst(verifs) == [i \in 1..Len(verifs) |-> verifs[Len(verifs) + 1 - i]]

\* get_claim and get_detailed_claim (op says which): the claim is looked
\* up, its verifications are fetched, then compute_verdict is called
get_claim(s, op, claim_id) ==
    /\ req[s].pc = "idle"
    /\ IF claim_id \notin DOMAIN claims
       THEN /\ response' = Reject(op, claim_id, 404)
            /\ UNCHANGED req
       ELSE /\ req' = [req EXCEPT ![s] =
                          [Idle EXCEPT !.pc = "fetch", !.op = op, !.claim_id = claim_id,
                                       !.out = NewestFirst(FindVerifications(verifications,
                                                                             claim_id))]]
            /\ UNCHANGED response
    /\ UNCHANGED <<users, claims, verifications, blockchain>>

\* db.claims.find({}).sort("created_at", -1).to_list(100), as the ids of
\* the documents; the order among the claims is not kept by the model
FindClaims ==
    LET n     == Cardinality(DOMAIN claims)
        found == CHOOSE q \in [1..n -> DOMAIN claims] :
                     \A i, j \in 1..n : i # j => q[i] # q[j]
    IN  IF n > ClaimListLimit THEN SubSeq(found, 1, ClaimListLimit) ELSE found

\* list_claims: the claims are fetched, then compute_verdict is called for
\* one after the other
list_claims(s) ==
    /\ req[s].pc = "idle"
    /\ IF FindClaims = <<>>
       THEN /\ response' = Response("list_claims", "", 200, <<>>)
            /\ UNCHANGED req
       ELSE /\ req' = [req EXCEPT ![s] =
                          [Idle EXCEPT !.pc = "fetch", !.op = "list_claims",
                                       !.claim_id = FindClaims[1], !.todo = FindClaims]]
            /\ UNCHANGED response
    /\ UNCHANGED <<users, claims, verifications, blockchain>>

\* ------------------------------------------------------------------------
\* GET /leaderboard/users and GET /leaderboard/sources.  Each handler is
\* one action: it awaits compute_verdict once per verification, and the
\* specification that uses it (SpecBoard) runs no writer beside it.
\* ------------------------------------------------------------------------
\* a source_url: the host as typed and the rest
Url(netloc, path) == [given |-> TRUE, netloc |-> netloc, path |-> path]

\* "source_url": None
NoUrl == [given |-> FALSE, netloc |-> "", path |-> ""]

\* the None that get_domain returns
NoDomain == ""

\* str.lower() on the hosts and the e-mail addresses of the model
Lower(host) ==
    CASE host = "News.org"  -> "news.org"
      [] host = "NEWS.ORG"  -> "news.org"
      [] host = "Ann@x.org" -> "ann@x.org"
      [] OTHER              -> host

\* get_domain: urlparse(u).netloc, lowercased; None without a url or a host
get_domain(u) ==
    IF ~u.given THEN NoDomain
    ELSE IF u.netloc = "" THEN NoDomain
    ELSE Lower(u.netloc)

\* v.get("source_url")
SourceUrlOf(v) == IF "source_url" \in DOMAIN v THEN v.source_url ELSE NoUrl

\* db.verifications.find({}).to_list(5000), as positions in the ledger
FindAllVerifications ==
    IF Len(verifications) > VerifListLimit THEN 1..VerifListLimit
    ELSE 1..Len(verifications)

\* db.users.find({}).to_list(1000), as the ids of the documents in the
\* order the store returns them
FindUsers ==
    LET n     == Cardinality(DOMAIN users)
        found == CHOOSE q \in [1..n -> DOMAIN users] :
                     \A i, j \in 1..n : i # j => q[i] # q[j]
    IN  IF n > UserListLimit THEN SubSeq(found, 1, UserListLimit) ELSE found

\* variant: the verdict as it stood when record i was submitted
Aligned_AtSubmission(i) ==
    LET v == verifications[i]
    IN  v.stance = AlignKey(VerdictOver(FindVerifications(SubSeq(verifications, 1, i),
                                                          v.claim_id), users).label)

\* v["stance"] == align_map.get(verdict.get("label", "Unclear"), "unclear")
\* with verdict = await compute_verdict(v["claim_id"])
Aligned(i) ==
    verifications[i].stance = AlignKey(compute_verdict(verifications[i].claim_id).label)

RECURSIVE StatKeys(_, _)
\* the keys of `stats` in insertion order: the users found, then, through
\* setdefault, the authors of records i.. that no key names yet
StatKeys(keys, i) ==
    IF i \notin FindAllVerifications THEN keys
    ELSE LET a == verifications[i].author_id
         IN  IF \E k \in 1..Len(keys) : keys[k] = a THEN StatKeys(keys, i + 1)
             ELSE StatKeys(Append(keys, a), i + 1)

\* a is before b in the descending lexicographic order of tuples
TupleGreater(a, b) ==
    \E k \in 1..Len(a) : a[k] > b[k] /\ \A j \in 1..(k - 1) : a[j] = b[j]

RECURSIVE SortDesc(_, _)
\* rows.sort(key=..., reverse=True): rows is a sequence of [key, row]; the
\* first n are sorted, each row going behind the rows whose key is not
\* smaller (the sort is stable)
SortDesc(rows, n) ==
    IF n = 0 THEN <<>>
    ELSE LET sorted == SortDesc(rows, n - 1)
             r      == rows[n]
             before == Cardinality({k \in 1..Len(sorted) :
                                       ~TupleGreater(r.key, sorted[k].key)})
         IN  SubSeq(sorted, 1, before) \o <<r>> \o SubSeq(sorted, before + 1, Len(sorted))

\* variant: rows[:abs(limit)]
Slice_Abs(rows, limit) ==
    LET n == IF limit < 0 THEN -limit ELSE limit
    IN  SubSeq(rows, 1, IF n < Len(rows) THEN n ELSE Len(rows))

\* rows[:limit], a negative limit counting from the end
Slice(rows, limit) ==
    LET stop == IF limit >= 0 THEN limit ELSE Len(rows) + limit
    IN  SubSeq(rows, 1, IF stop < 0 THEN 0 ELSE IF stop < Len(rows) THEN stop ELSE Len(rows))

\* one row of leaderboard_users: the reputation and the accuracy are
\* rounded to 3 decimals, kept in thousandths
UserRow(user_id) ==
    LET mine    == {i \in FindAllVerifications : verifications[i].author_id = user_id}
        aligned == Cardinality({i \in mine : Aligned(i)})
    IN  [id            |-> user_id,
         reputation    |-> Round3(get_user_rep(users, user_id), InitialReputation),
         verifications |-> Cardinality(mine),
         accuracy      |-> IF mine = {} THEN 0 ELSE Round3(aligned, Cardinality(mine))]

UserRows ==
    LET keys == StatKeys(FindUsers, 1)
        rows == [k \in 1..Len(keys) |->
                    LET r == UserRow(keys[k])
                    IN  [key |-> <<r.reputation, r.accuracy, r.verifications>>, row |-> r]]
        sorted == SortDesc(rows, Len(rows))
    IN  [k \in 1..Len(sorted) |-> sorted[k].row]

leaderboard_users(limit) ==
    /\ response' = Response("leaderboard_users", "", 200, Slice(UserRows, limit))
    /\ UNCHANGED <<users, claims, verifications, req, blockchain>>

RECURSIVE DomainKeys(_, _)
\* the keys of by_domain in insertion order
DomainKeys(keys, i) ==
    IF i \notin FindAllVerifications THEN keys
    ELSE LET d == get_domain(SourceUrlOf(verifications[i]))
         IN  IF d = NoDomain \/ \E k \in 1..Len(keys) : keys[k] = d
             THEN DomainKeys(keys, i + 1)
             ELSE DomainKeys(Append(keys, d), i + 1)

\* one row of leaderboard_sources
SourceRow(domain) ==
    LET citing  == {i \in FindAllVerifications :
                       get_domain(SourceUrlOf(verifications[i])) = domain}
        aligned == Cardinality({i \in citing : Aligned(i)})
    IN  [domain      |-> domain,
         samples     |-> Cardinality(citing),
         reliability |-> IF citing = {} THEN 0 ELSE Round3(aligned, Cardinality(citing))]

SourceRows ==
    LET keys == DomainKeys(<<>>, 1)
        rows == [k \in 1..Len(keys) |->
                    LET r == SourceRow(keys[k])
                    IN  [key |-> <<r.reliability, r.samples>>, row |-> r]]
        sorted == SortDesc(rows, Len(rows))
    IN  [k \in 1..Len(sorted) |-> sorted[k].row]

leaderboard_sources(limit) ==
    /\ response' = Response("leaderboard_sources", "", 200, Slice(SourceRows, limit))
    /\ UNCHANGED <<users, claims, verifications, req, blockchain>>

\* ------------------------------------------------------------------------
\* POST /auth/register
\* ------------------------------------------------------------------------
MinPasswordLen == 6     \* validate_password: len(password) < 6
MaxPasswordLen == 128   \* validate_password: len(password) > 128
MinUsernameLen == 3     \* validate_username: len(username) < 3
MaxUsernameLen == 50    \* validate_username: len(username) > 50

\* re.search(r"[A-Za-z]", password) and re.search(r"[0-9]", password) on
\* the passwords of the model
HasLetter(password) == password \in {"secret1", "short", "letters"}
HasDigit(password)  == password \in {"secret1", "1234567"}

\* re.match(r"^[a-zA-Z0-9_-]+$", username) on the usernames of the model
WellFormed(username) == username \in {"ann", "bob", "al"}

validate_password(password) ==
    /\ Len(password) >= MinPasswordLen
    /\ Len(password) <= MaxPasswordLen
    /\ HasLetter(password)
    /\ HasDigit(password)

validate_username(username) ==
    /\ Len(username) >= MinUsernameLen
    /\ Len(username) <= MaxUsernameLen
    /\ WellFormed(username)

\* variant: db.users.find_one({"email": user.email}), the address as typed
EmailTaken_AsTyped(email) ==
    \E u \in DOMAIN users : "email" \in DOMAIN users[u] /\ users[u].email = email

\* db.users.find_one({"email": user.email.lower()})
EmailTaken(email) ==
    \E u \in DOMAIN users : "email" \in DOMAIN users[u] /\ users[u].email = Lower(email)

\* db.users.find_one({"username": user.username})
UsernameTaken(username) ==
    \E u \in DOMAIN users : "username" \in DOMAIN users[u] /\ users[u].username = username

\* user_data of register_user, without the password hash and the dates
RegisteredUser(username, email) ==
    [reputation |-> InitialReputation, username |-> username, email |-> Lower(email),
     last_login |-> FALSE]

\* the two validations, which await nothing
register_user(s, username, email, password) ==
    /\ req[s].pc = "idle"
    /\ IF ~validate_password(password) \/ ~validate_username(username)
       THEN /\ response' = Reject("register_user", "", 400)
            /\ UNCHANGED req
       ELSE /\ req' = [req EXCEPT ![s] =
                          [Idle EXCEPT !.pc = "reg_email", !.op = "register",
                                       !.username = username, !.email = email]]
            /\ UNCHANGED response
    /\ UNCHANGED <<users, claims, verifications, blockchain>>

\* the awaits of register_user, one per step: the two lookups, the insert,
\* the update of last_login, after which the token is returned
RegisterStep(s) ==
    LET r == req[s]
    IN  /\ r.op = "register"
        /\ CASE r.pc = "reg_email" ->
                    /\ IF EmailTaken(r.email)
                       THEN /\ response' = Reject("register_user", "", 400)
                            /\ req' = [req EXCEPT ![s] = Idle]
                       ELSE /\ req' = [req EXCEPT ![s].pc = "reg_username"]
                            /\ UNCHANGED response
                    /\ UNCHANGED users
             [] r.pc = "reg_username" ->
                    /\ IF UsernameTaken(r.username)
                       THEN /\ response' = Reject("register_user", "", 400)
                            /\ req' = [req EXCEPT ![s] = Idle]
                       ELSE /\ req' = [req EXCEPT ![s].pc = "reg_insert"]
                            /\ UNCHANGED response
                    /\ UNCHANGED users
             [] r.pc = "reg_insert" ->
                    /\ UserIds \ DOMAIN users # {}
                    /\ LET id == FreshId(UserIds, DOMAIN users)
                       IN  /\ users' = [u \in DOMAIN users \cup {id} |->
                                            IF u = id THEN RegisteredUser(r.username, r.email)
                                            ELSE users[u]]
                           /\ req' = [req EXCEPT ![s].pc = "reg_login",
                                                 ![s].author_id = id]
                    /\ UNCHANGED response
             [] r.pc = "reg_login" ->
                    /\ users' = [users EXCEPT ![r.author_id].last_login = TRUE]
                    /\ req' = [req EXCEPT ![s] = Idle]
                    /\ response' = Response("register_user", "", 200,
                                            Token(r.author_id, TRUE))
        /\ UNCHANGED <<claims, verifications, blockchain>>

\* ------------------------------------------------------------------------
\* The server under concurrent requests
\* ------------------------------------------------------------------------
\* no request is between its first and its last step
Quiet == \A s \in Slots : req[s].pc = "idle"

\* the slot a new request takes; which of the free ones carries no meaning
FreeSlot == CHOOSE s \in Slots : req[s].pc = "idle"

\* a verify request arrives, as long as the ledger holds fewer than `cap`
VerifyRequest(cap) ==
    /\ Len(verifications) < cap
    /\ \E s \in Slots : req[s].pc = "idle"
    /\ \E c \in ClaimIds \cup {BadId}, a \in UserIds \cup {BadId}, st \in Stances :
           add_verification(FreeSlot, c, a, st)

\* a verdict request arrives
VerdictRequest ==
    /\ \E s \in Slots : req[s].pc = "idle"
    /\ \E c \in ClaimIds \cup {BadId} : claim_verdict(FreeSlot, c)

Next ==
    \/ users_bootstrap
    \/ \E a \in ClaimAuthorIds : create_claim(a)
    \/ VerifyRequest(MaxVerifs)
    \/ VerdictRequest
    \/ \E s \in Slots : ComputeFetch(s)
    \/ \E s \in Slots : ComputeRep(s)
    \/ \E s \in Slots : ApplyFeedback(s)

Spec == Init /\ [][Next]_vars

\* ------------------------------------------------------------------------
\* compute_verdict as a function of the store and the ledger: get_verdict
\* is called, one call at a time, on stores and ledgers taken from bounded
\* sets.  The ledgers list the verifications of the claim asked about; the
\* reputations are values that earlier feedback on other claims can leave.
\* ------------------------------------------------------------------------
RepSamples == {-1, 0, 20, 22, 40}

SampleVerifications ==
    {NewVerification(c, a, st) : c \in ClaimIds, a \in UserIds, st \in Stances}

InitVerdict ==
    /\ users \in [UserIds -> {[reputation |-> r] : r \in RepSamples}]
    /\ claims = [c \in ClaimIds |-> NewClaim(CHOOSE a \in UserIds : TRUE)]
    /\ verifications \in UNION {[1..n -> SampleVerifications] : n \in 0..MaxSampleVerifs}
    /\ req = [s \in Slots |-> Idle]
    /\ response = NoResponse
    /\ blockchain = NotLoaded

NextVerdict ==
    LET s == CHOOSE r \in Slots : TRUE
    IN  \/ \E c \in ClaimIds : claim_verdict(s, c)
        \/ ComputeRep(s)

SpecVerdict == InitVerdict /\ [][NextVerdict]_vars

\* ------------------------------------------------------------------------
\* Long runs, one request at a time: a backer supports the claim a few
\* times, then a dissenter refutes it again and again.  Every request goes
\* through the same steps as in Spec.
\* ------------------------------------------------------------------------
Backer    == "u1"
Dissenter == "u2"

DriftRequest ==
    /\ Quiet
    /\ Len(verifications) < MaxDriftVerifs
    /\ \E c \in ClaimIds :
           \/ /\ Len(verifications) < MaxBackings
              /\ \A i \in 1..Len(verifications) : verifications[i].author_id = Backer
              /\ add_verification(FreeSlot, c, Backer, "support")
           \/ add_verification(FreeSlot, c, Dissenter, "refute")

NextDrift ==
    \/ users_bootstrap
    \/ create_claim(Backer)
    \/ DriftRequest
    \/ \E s \in Slots : ComputeFetch(s)
    \/ \E s \in Slots : ComputeRep(s)
    \/ \E s \in Slots : ApplyFeedback(s)

SpecDrift == Init /\ [][NextDrift]_vars

\* ------------------------------------------------------------------------
\* The read paths that show a claim, one request at a time, between the
\* writes of Spec.
\* ------------------------------------------------------------------------
ReadRequest ==
    /\ Quiet
    /\ \/ \E c \in ClaimIds \cup {BadId}, op \in {"get_claim", "get_detailed_claim"} :
              get_claim(FreeSlot, op, c)
       \/ list_claims(FreeSlot)

NextRead ==
    \/ users_bootstrap
    \/ \E a \in ClaimAuthorIds : create_claim(a)
    \/ Quiet /\ VerifyRequest(MaxVerifs)
    \/ ReadRequest
    \/ \E s \in Slots : ComputeFetch(s)
    \/ \E s \in Slots : ComputeRep(s)
    \/ \E s \in Slots : ApplyFeedback(s)

SpecRead == Init /\ [][NextRead]_vars

\* ------------------------------------------------------------------------
\* The leaderboards, queried on stores and ledgers taken from bounded sets:
\* verifications with and without a source_url, two hosts of which one is
\* typed in two cases, reputations that feedback can leave.
\* ------------------------------------------------------------------------
BoardReps == {20, 22}
BoardUrls == {NoUrl, Url("News.org", "/a"), Url("news.org", "/b"), Url("blog.net", "/")}
Limits    == {-1, 1, 2}

CitedVerifications ==
    {[claim_id |-> c, author_id |-> a, stance |-> st, source_url |-> u] :
        c \in ClaimIds, a \in UserIds, st \in Stances, u \in BoardUrls}

InitBoard ==
    /\ users \in {[u \in UserIds |-> [reputation |-> IF u = Backer THEN InitialReputation
                                                     ELSE r]] : r \in BoardReps}
    /\ claims = [c \in ClaimIds |-> NewClaim(CHOOSE a \in UserIds : TRUE)]
    /\ verifications \in UNION {[1..n -> CitedVerifications] : n \in 0..MaxBoardVerifs}
    /\ req = [s \in Slots |-> Idle]
    /\ response = NoResponse
    /\ blockchain = NotLoaded

NextBoard ==
    \/ \E limit \in Limits : leaderboard_users(limit)
    \/ \E limit \in Limits : leaderboard_sources(limit)

SpecBoard == InitBoard /\ [][NextBoard]_vars

\* ------------------------------------------------------------------------
\* Requests with and without a bearer token, one at a time.
\* ------------------------------------------------------------------------
Tokens == {NoToken} \cup {Token(u, ok) : u \in UserIds \cup {BadId}, ok \in BOOLEAN}

AuthClaimRequest ==
    \E token \in Tokens, a \in UserIds \cup {BadId} : create_claim_with(token, a)

AuthVerifyRequest ==
    /\ Quiet
    /\ Len(verifications) < MaxVerifs
    /\ \E token \in Tokens, c \in ClaimIds \cup {BadId}, a \in UserIds \cup {BadId},
          st \in Stances :
           add_verification_with(FreeSlot, token, c, a, st)

NextAuth ==
    \/ users_bootstrap
    \/ AuthClaimRequest
    \/ AuthVerifyRequest
    \/ \E s \in Slots : ComputeFetch(s)
    \/ \E s \in Slots : ComputeRep(s)
    \/ \E s \in Slots : ApplyFeedback(s)

SpecAuth == Init /\ [][NextAuth]_vars

\* ------------------------------------------------------------------------
\* Register requests, each run to completion before the next one starts.
\* ------------------------------------------------------------------------
Usernames == {"ann", "bob", "al"}
Emails    == {"Ann@x.org", "ann@x.org", "bob@x.org"}
Passwords == {"secret1", "short"}

RegisterRequest ==
    /\ Quiet
    /\ UserIds \ DOMAIN users # {}
    /\ \E username \in Usernames, email \in Emails, password \in Passwords :
           register_user(FreeSlot, username, email, password)

NextRegister ==
    \/ RegisterRequest
    \/ \E s \in Slots : RegisterStep(s)

SpecRegister == Init /\ [][NextRegister]_vars

\* ------------------------------------------------------------------------
\* Requests one at a time, of which a record_verification can be abandoned
\* after its insert.
\* ------------------------------------------------------------------------
NextAbandon ==
    \/ users_bootstrap
    \/ \E a \in ClaimAuthorIds : create_claim(a)
    \/ Quiet /\ VerifyRequest(MaxVerifs)
    \/ Quiet /\ VerdictRequest
    \/ \E s \in Slots : ComputeFetch(s)
    \/ \E s \in Slots : ComputeRep(s)
    \/ \E s \in Slots : ApplyFeedback(s)
    \/ \E s \in Slots : Abandon(s)

SpecAbandon == Init /\ [][NextAbandon]_vars

\* ------------------------------------------------------------------------
\* The doubles behind the reputations.  The store and compute_verdict hold
\* IEEE-754 doubles; 0.1 and 0.05 are not representable, so a reputation
\* that is 0 in twentieths need not be the double 0.0.  A double is kept
\* here as <<h, l>>, standing for (h * 2^30 + l) * 2^-56 with l in
\* 0 .. 2^30 - 1: every double met below 32.0 is such a multiple.
\* ------------------------------------------------------------------------
FloatBase == 2^30

FloatZero       == <<0, 0>>                    \* 0.0
FloatOne        == <<67108864, 0>>             \* 1.0
FloatAligned    == <<6710886, 429496730>>      \* 0.1  = 0x1.999999999999ap-4
FloatMisaligned == <<-3355444, 858993459>>     \* -0.05 = -0x1.999999999999ap-5

\* |h * 2^30 + l| >= t * 2^30
FloatReaches(h, l, t) == h >= t \/ h < -t \/ (h = -t /\ l = 0)

RECURSIVE FloatUlp(_, _, _, _)
\* the spacing of the doubles around h * 2^30 + l: g at magnitude t * 2^30
\* and above, half of it in the binade below, and so on down to 1
FloatUlp(h, l, t, g) ==
    IF g = 1 \/ FloatReaches(h, l, t) THEN g
    ELSE FloatUlp(h, l, t \div 2, g \div 2)

\* round to nearest, ties to even: the 53 bits of a double
FloatRound(h, l) ==
    LET g    == FloatUlp(h, l, 2^30, 256)
        r    == l % g
        down == l - r
        pick == IF 2 * r < g THEN down
                ELSE IF 2 * r > g THEN down + g
                ELSE IF (down \div g) % 2 = 0 THEN down ELSE down + g
    IN  IF pick = FloatBase THEN <<h + 1, 0>> ELSE <<h, pick>>

\* x + y on doubles: the exact sum, rounded
FloatAdd(x, y) ==
    LET l == x[2] + y[2]
    IN  IF l >= FloatBase THEN FloatRound(x[1] + y[1] + 1, l - FloatBase)
        ELSE FloatRound(x[1] + y[1], l)

\* the double of the $inc that carries the delta
FloatDelta(delta) == IF delta = AlignedDelta THEN FloatAligned ELSE FloatMisaligned

\* the verifications whose feedback has been written, when requests run one
\* at a time: all of the ledger but the record of the request in flight
Settled ==
    Len(verifications)
        - Cardinality({s \in Slots : req[s].op = "verify" /\ req[s].pc # "idle"})

RECURSIVE Replay(_)
\* the store after the feedback of the first n verifications, requests one
\* at a time: the reputation in twentieths and, as bits, the double that
\* the same $inc calls leave in db.users
Replay(n) ==
    IF n = 0
    THEN [u \in DOMAIN users |-> [reputation |-> InitialReputation, bits |-> FloatOne]]
    ELSE LET before == Replay(n - 1)
             v      == verifications[n]
             seen   == FindVerifications(SubSeq(verifications, 1, n), v.claim_id)
             delta  == Feedback(v.stance, VerdictOver(seen, before))
         IN  [before EXCEPT ![v.author_id] =
                 [reputation |-> @.reputation + delta,
                  bits       |-> FloatAdd(@.bits, FloatDelta(delta))]]

RECURSIVE FloatWeights(_, _, _)
\* weights[v["stance"]] += rep on doubles, over the first n of verifs
FloatWeights(verifs, n, store) ==
    IF n = 0 THEN [s \in Stances |-> FloatZero]
    ELSE [FloatWeights(verifs, n - 1, store) EXCEPT ![verifs[n].stance] =
              FloatAdd(@, store[verifs[n].author_id].bits)]

\* sum(weights.values()) as compute_verdict finds it for the claim, the
\* reputations read from store
FloatTotal(claim_id, store) ==
    LET verifs  == FindVerifications(verifications, claim_id)
        weights == FloatWeights(verifs, Len(verifs), store)
    IN  FloatAdd(FloatAdd(weights["support"], weights["refute"]), weights["unclear"])

\* ------------------------------------------------------------------------
\* A scripted run, one request at a time: the backer supports the first
\* claim, the dissenter then follows the script on it, and may at any point
\* turn to the second claim and support it.
\* ------------------------------------------------------------------------
ScriptBackings == 6

ScriptClaimIds == {"c1", "c2"}

BackedClaim == "c1"
OtherClaim  == "c2"

\* the stances the dissenter sends for the backed claim
Script ==
    <<"refute", "refute", "refute", "refute", "refute", "refute",
      "refute", "refute", "refute", "refute", "refute", "refute",
      "support", "refute", "support", "refute", "refute", "refute",
      "support", "refute", "support", "refute", "refute", "refute",
      "support", "refute", "support", "refute", "refute", "refute",
      "refute", "refute", "refute", "refute", "refute", "refute",
      "refute", "refute", "refute", "refute", "refute", "refute",
      "support", "support">>

AuthoredBy(user_id) ==
    Cardinality({i \in 1..Len(verifications) : verifications[i].author_id = user_id})

ScriptRequest ==
    /\ Quiet
    /\ FindVerifications(verifications, OtherClaim) = <<>>
    /\ \/ /\ AuthoredBy(Backer) < ScriptBackings
          /\ add_verification(FreeSlot, BackedClaim, Backer, "support")
       \/ /\ AuthoredBy(Backer) = ScriptBackings
          /\ AuthoredBy(Dissenter) < Len(Script)
          /\ add_verification(FreeSlot, BackedClaim, Dissenter,
                              Script[AuthoredBy(Dissenter) + 1])
       \/ /\ AuthoredBy(Backer) = ScriptBackings
          /\ add_verification(FreeSlot, OtherClaim, Dissenter, "support")

NextScript ==
    \/ users_bootstrap
    \/ create_claim_in(ScriptClaimIds, NoToken, Backer)
    \/ ScriptRequest
    \/ \E s \in Slots : ComputeFetch(s)
    \/ \E s \in Slots : ComputeRep(s)
    \/ \E s \in Slots : ApplyFeedback(s)

SpecScript == Init /\ [][NextScript]_vars

\* ------------------------------------------------------------------------
\* compute_verdict over stores that do not resolve every author: a user
\* document can be absent, or present without a reputation field.
\* ------------------------------------------------------------------------
\* a user document with no "reputation"
BareUser == [is_anonymous |-> TRUE]

OrphanDocs == {BareUser, [reputation |-> 40]}

InitOrphan ==
    /\ \E known \in SUBSET UserIds : users \in [known -> OrphanDocs]
    /\ claims = [c \in ClaimIds |-> NewClaim(CHOOSE a \in UserIds : TRUE)]
    /\ verifications \in UNION {[1..n -> SampleVerifications] : n \in 0..MaxSampleVerifs}
    /\ req = [s \in Slots |-> Idle]
    /\ response = NoResponse
    /\ blockchain = NotLoaded

SpecOrphan == InitOrphan /\ [][NextVerdict]_vars

\* ------------------------------------------------------------------------
\* blockchain_service.BlockchainService, the hash chain.  Its methods are
\* synchronous: each call runs to its end before the next one starts.  The
\* clock and the number of proof-of-work rounds are the environment's.
\* ------------------------------------------------------------------------
MaxBlocks == 2
MaxTries  == 2

\* datetime.utcnow().isoformat()
Times == {"T1", "T2"}

\* d[k] = v on a dict
WithKey(d, k, v) == [f \in DOMAIN d \cup {k} |-> IF f = k THEN v ELSE d[f]]

\* {key: value for key, value in d.items() if key != k}
WithoutKey(d, k) == [f \in DOMAIN d \ {k} |-> d[f]]

\* sha256 of json.dumps(block_data, sort_keys=True): a digest that differs
\* whenever the data differs
calculate_hash(block_data) == [sha256 |-> block_data]

\* the genesis block: the clock is read once for the block and once more
\* for the data that is hashed
create_genesis_block(bc, t_block, t_hashed) ==
    LET hashed == [index |-> 0, timestamp |-> t_hashed, transactions |-> <<>>,
                   nonce |-> 0, previous_hash |-> "0"]
        genesis_block == [index |-> 0, timestamp |-> t_block, transactions |-> <<>>,
                          nonce |-> 0, previous_hash |-> "0",
                          hash |-> calculate_hash(hashed)]
    IN  [bc EXCEPT !.chain = Append(@, genesis_block)]

\* BlockchainService(): empty chain and pool, then the genesis block
BlockchainService(t_block, t_hashed) ==
    create_genesis_block([chain |-> <<>>, pending_transactions |-> <<>>],
                         t_block, t_hashed)

get_latest_block(bc) == bc.chain[Len(bc.chain)]

\* the id is the length of the pending pool, as a string
add_transaction(bc, transaction, now) ==
    LET transaction_id == ToString(Len(bc.pending_transactions))
        stamped == WithKey(WithKey(transaction, "id", transaction_id),
                           "timestamp", now)
    IN  [bc EXCEPT !.pending_transactions = Append(@, stamped)]

\* one round of the proof-of-work loop: the nonce goes up and the hash is
\* taken over new_block as it is, its "hash" of the round before included
MineRound(new_block) ==
    LET bumped == [new_block EXCEPT !.nonce = @ + 1]
    IN  WithKey(bumped, "hash", calculate_hash(bumped))

RECURSIVE MineRounds(_, _)
MineRounds(new_block, tries) ==
    IF tries = 0 THEN new_block
    ELSE MineRounds(MineRound(new_block), tries - 1)

\* variant: self.pending_transactions is not reset after the append
mine_pending_transactions_KeepPool(bc, now, tries) ==
    IF bc.pending_transactions = <<>> THEN bc
    ELSE LET new_block == [index |-> Len(bc.chain), timestamp |-> now,
                           transactions |-> bc.pending_transactions,
                           nonce |-> 0,
                           previous_hash |-> get_latest_block(bc).hash]
         IN  [bc EXCEPT !.chain = Append(@, MineRounds(new_block, tries))]

\* tries: the rounds it takes until the hash starts with "0000" (or the
\* nonce passes 1000000); at least one, since the first test finds no "hash"
mine_pending_transactions(bc, now, tries) ==
    IF bc.pending_transactions = <<>> THEN bc
    ELSE LET new_block == [index |-> Len(bc.chain), timestamp |-> now,
                           transactions |-> bc.pending_transactions,
                           nonce |-> 0,
                           previous_hash |-> get_latest_block(bc).hash]
         IN  [chain |-> Append(bc.chain, MineRounds(new_block, tries)),
              pending_transactions |-> <<>>]

\* the transaction dict of record_user_reputation
ReputationUpdate(user_id, reputation_score, verification_count, accuracy_rate, now) ==
    [type |-> "reputation_update", user_id |-> user_id,
     reputation_score |-> reputation_score,
     verification_count |-> verification_count,
     accuracy_rate |-> accuracy_rate, timestamp |-> now]

\* the transaction dict of record_claim_verification
ClaimVerification(claim_id, verifs, final_verdict, now) ==
    [type |-> "claim_verification", claim_id |-> claim_id,
     verification_count |-> Len(verifs), final_verdict |-> final_verdict,
     verification_hash |-> calculate_hash([verifications |-> verifs]),
     timestamp |-> now]

\* add_transaction, then mine_pending_transactions
Recorded(bc, transaction, now_added, now_mined, tries) ==
    mine_pending_transactions(add_transaction(bc, transaction, now_added),
                              now_mined, tries)

record_user_reputation(user_id, reputation_score, verification_count, accuracy_rate) ==
    /\ Len(blockchain.chain) <= MaxBlocks
    /\ \E now, now_added, now_mined \in Times : \E tries \in 1..MaxTries :
           blockchain' = Recorded(blockchain,
                                  ReputationUpdate(user_id, reputation_score,
                                                   verification_count,
                                                   accuracy_rate, now),
                                  now_added, now_mined, tries)
    /\ UNCHANGED <<users, claims, verifications, req, response>>

record_claim_verification(claim_id, verifs, final_verdict) ==
    /\ Len(blockchain.chain) <= MaxBlocks
    /\ \E now, now_added, now_mined \in Times : \E tries \in 1..MaxTries :
           blockchain' = Recorded(blockchain,
                                  ClaimVerification(claim_id, verifs,
                                                    final_verdict, now),
                                  now_added, now_mined, tries)
    /\ UNCHANGED <<users, claims, verifications, req, response>>

\* the scan of verify_chain_integrity, from the second block on
verify_chain_integrity(bc) ==
    \A i \in 2..Len(bc.chain) :
        /\ bc.chain[i].hash = calculate_hash(WithoutKey(bc.chain[i], "hash"))
        /\ bc.chain[i].previous_hash = bc.chain[i - 1].hash

\* the calls made on the chain: a user's reputation as the store can hold
\* it, and a claim's verifications with the verdict computed over them
InitChain ==
    /\ users = <<>>
    /\ claims = <<>>
    /\ verifications = <<>>
    /\ req = [s \in Slots |-> Idle]
    /\ response = NoResponse
    /\ \E t_block, t_hashed \in Times :
           blockchain = BlockchainService(t_block, t_hashed)

NextChain ==
    \/ \E user_id \in UserIds :
           record_user_reputation(user_id, InitialReputation, 0, 0)
    \/ \E verifs \in {<<>>, <<NewVerification("c1", Backer, "support")>>} :
           record_claim_verification("c1", verifs,
                                     VerdictOver(verifs, [u \in UserIds |-> NewUser]))

SpecChain == InitChain /\ [][NextChain]_vars

\* ------------------------------------------------------------------------
\* Two claims: the backer supports the first claim, the dissenter then
\* refutes it again and again, one request at a time; at any point either of
\* them may send the one verification of the second claim, also while a
\* request on the first claim is still being handled.
\* ------------------------------------------------------------------------
LoneBackings == 4
LoneRefutes  == 21

LoneRequest ==
    /\ FindVerifications(verifications, OtherClaim) = <<>>
    /\ \/ /\ Quiet
          /\ AuthoredBy(Backer) < LoneBackings
          /\ AuthoredBy(Dissenter) = 0
          /\ add_verification(FreeSlot, BackedClaim, Backer, "support")
       \/ /\ Quiet
          /\ AuthoredBy(Backer) = LoneBackings
          /\ AuthoredBy(Dissenter) < LoneRefutes
          /\ add_verification(FreeSlot, BackedClaim, Dissenter, "refute")
       \/ /\ \E s \in Slots : req[s].pc = "idle"
          /\ \E a \in UserIds, st \in Stances :
                 add_verification(FreeSlot, OtherClaim, a, st)

NextLone ==
    \/ users_bootstrap
    \/ create_claim_in(ScriptClaimIds, NoToken, Backer)
    \/ LoneRequest
    \/ \E s \in Slots : ComputeFetch(s)
    \/ \E s \in Slots : ComputeRep(s)
    \/ \E s \in Slots : ApplyFeedback(s)

SpecLone == Init /\ [][NextLone]_vars

\* the event loop runs every handler that is ready to go on
HandlerStep ==
    \E s \in Slots : ComputeFetch(s) \/ ComputeRep(s) \/ ApplyFeedback(s)

SpecLoneFair == SpecLone /\ WF_vars(HandlerStep)

\* ------------------------------------------------------------------------
\* Registered and anonymous users side by side: register and bootstrap
\* requests, then verifications with and without a bearer token, one
\* request at a time.
\* ------------------------------------------------------------------------
Members == {<<"ann", "ann@x.org">>, <<"bob", "bob@x.org">>}

MemberRequest ==
    /\ Quiet
    /\ UserIds \ DOMAIN users # {}
    /\ \E m \in Members, password \in Passwords :
           register_user(FreeSlot, m[1], m[2], password)

NextMember ==
    \/ users_bootstrap
    \/ MemberRequest
    \/ \E s \in Slots : RegisterStep(s)
    \/ \E a \in ClaimAuthorIds : create_claim(a)
    \/ AuthVerifyRequest
    \/ \E s \in Slots : ComputeFetch(s)
    \/ \E s \in Slots : ComputeRep(s)
    \/ \E s \in Slots : ApplyFeedback(s)

SpecMember == Init /\ [][NextMember]_vars

\* ------------------------------------------------------------------------
\* Vocabulary of the properties
\* ------------------------------------------------------------------------
\* the positions in the ledger of the verification documents of a claim
RecordsOf(claim_id) ==
    {i \in 1..Len(verifications) : verifications[i].claim_id = claim_id}

\* ------------------------------------------------------------------------
\* C6: a claim with zero verifications has the verdict "Unverified" with
\* confidence 0.0 and the three counts 0, from compute_verdict and in the
\* response of get_verdict.
\* ------------------------------------------------------------------------
C6_EmptyVerdict ==
    [label |-> "Unverified", confidence |-> 0, support |-> 0, refute |-> 0, unclear |-> 0]

C6_ComputeOnEmpty ==
    \A c \in DOMAIN claims : RecordsOf(c) = {} => compute_verdict(c) = C6_EmptyVerdict

C6_GetVerdictOnEmpty ==
    \A s \in Slots, c \in DOMAIN claims :
        (claim_verdict(s, c) /\ RecordsOf(c) = {})
            => response' = [op |-> "claim_verdict", claim_id |-> c, status |-> 200,
                             body |-> C6_EmptyVerdict]

C6_UnverifiedWhenEmpty == []C6_ComputeOnEmpty /\ [][C6_GetVerdictOnEmpty]_vars

\* get_verdict has just answered for a claim that has no verification
C6_Witness ==
    /\ response.op = "claim_verdict" /\ response.status = 200
    /\ response.body.label = "Unverified"
    /\ response.claim_id \in DOMAIN claims /\ RecordsOf(response.claim_id) = {}

RECURSIVE C1_Sum(_, _)
\* the sum of the current reputations of the authors of the records `idx`
C1_Sum(idx, store) ==
    IF idx = {} THEN 0
    ELSE LET i == CHOOSE j \in idx : TRUE
         IN  store[verifications[i].author_id].reputation + C1_Sum(idx \ {i}, store)

C1_Weight(c, st) == C1_Sum({i \in RecordsOf(c) : verifications[i].stance = st}, users)

C1_Label(st) ==
    IF st = "support" THEN "Mostly True"
    ELSE IF st = "refute" THEN "Mostly False" ELSE "Unclear"

\* `verdict` names a stance of largest weight of claim c and its share
C1_IsWeightedMajority(c, verdict) ==
    \E st \in Stances :
        LET total == C1_Weight(c, "support") + C1_Weight(c, "refute") + C1_Weight(c, "unclear")
        IN  /\ verdict.label = C1_Label(st)
            /\ \A t \in Stances : C1_Weight(c, t) <= C1_Weight(c, st)
            /\ total # 0 =>
                   2 * Abs(1000 * C1_Weight(c, st) - verdict.confidence * total) <= Abs(total)

\* claim c holds one support by an author at 2.0 and one refute by one at 1.0
C1_Example(c) ==
    /\ Cardinality(RecordsOf(c)) = 2
    /\ \E i, j \in RecordsOf(c) :
           /\ verifications[i].stance = "support"
           /\ verifications[j].stance = "refute"
           /\ users[verifications[i].author_id].reputation = 40
           /\ users[verifications[j].author_id].reputation = 20

C1_WeightedMajority ==
    \A c \in DOMAIN claims :
        RecordsOf(c) # {} =>
            /\ C1_IsWeightedMajority(c, compute_verdict(c))
            /\ C1_Example(c) =>
                   /\ compute_verdict(c).label = "Mostly True"
                   /\ compute_verdict(c).confidence = 667

\* get_verdict has answered "Mostly True", 0.667 on the example
C1_Witness ==
    \E c \in DOMAIN claims :
        /\ C1_Example(c)
        /\ response = [op |-> "claim_verdict", claim_id |-> c, status |-> 200,
                       body |-> [label |-> "Mostly True", confidence |-> 667,
                                 support |-> 1, refute |-> 1, unclear |-> 0]]

\* ------------------------------------------------------------------------
\* C5: when stances tie for the largest weight, compute_verdict picks the
\* first of them in the order support, refute, unclear, and the label is
\* the same for every order in which the ledger returns the records.
\* ------------------------------------------------------------------------
C5_Earlier(s, t) ==
    \/ s = "support" /\ t # "support"
    \/ s = "refute" /\ t = "unclear"

C5_Reordered(verifs) ==
    {[i \in 1..Len(verifs) |-> verifs[p[i]]] : p \in Permutations(1..Len(verifs))}

C3_ConfidenceInRange ==
    \A c \in DOMAIN claims :
        /\ 0 <= compute_verdict(c).confidence
        /\ compute_verdict(c).confidence <= 1000

\* ------------------------------------------------------------------------
\* C2: every successful add_verification changes the reputation of its
\* author by exactly +0.1 when its stance is the stance of the verdict it
\* recomputed after its insert and by exactly -0.05 otherwise; nothing
\* else ever changes a reputation.
\* ------------------------------------------------------------------------
C2_StanceOfLabel(label) ==
    IF label = "Mostly True" THEN "support"
    ELSE IF label = "Mostly False" THEN "refute" ELSE "unclear"

\* slot s takes the last step of an add_verification that was accepted
C2_Completes(s) == req[s].pc = "update" /\ req'[s].pc = "idle"

C2_Step ==
    /\ \A s \in Slots :
           C2_Completes(s) =>
               LET a == req[s].author_id
               IN  /\ req[s].current.label \in {"Mostly True", "Mostly False", "Unclear"}
                   /\ users'[a].reputation - users[a].reputation =
                          IF req[s].stance = C2_StanceOfLabel(req[s].current.label)
                          THEN 2 ELSE -1
                   /\ \A u \in DOMAIN users \ {a} : users'[u] = users[u]
    /\ \A u \in DOMAIN users :
           users'[u].reputation # users[u].reputation =>
               \E s \in Slots : C2_Completes(s) /\ req[s].author_id = u

C2_FixedFeedback == [][C2_Step]_vars

\* both deltas have been applied: a bonus to one user, a penalty to another
C2_Witness ==
    /\ Quiet
    /\ \E a, b \in DOMAIN users : users[a].reputation = 22 /\ users[b].reputation = 19

\* ------------------------------------------------------------------------
\* C4, as amended: users A and B are created at 1.0 and claim C is
\* created; after A's support get_verdict(C) is "Mostly True" with
\* confidence 1.0 and A stands at 1.1; after B's refute the weights are 1.1
\* against 0.95, not tied: get_verdict(C) is "Mostly True" with confidence
\* 0.537.
\* ------------------------------------------------------------------------
\* the ledger holds the support of A on c and nothing else; no request runs
C4_AfterA(c, a) ==
    /\ Quiet
    /\ verifications = <<[claim_id |-> c, author_id |-> a, stance |-> "support"]>>

\* the ledger holds the support of A, then the refute of B; no request runs
C4_AfterB(c, a, b) ==
    /\ Quiet
    /\ a # b
    /\ verifications = <<[claim_id |-> c, author_id |-> a, stance |-> "support"],
                         [claim_id |-> c, author_id |-> b, stance |-> "refute"]>>

C4_ScenarioAmended ==
    \A c \in DOMAIN claims, a, b \in DOMAIN users :
        /\ C4_AfterA(c, a) =>
               /\ compute_verdict(c) = [label |-> "Mostly True", confidence |-> 1000,
                                        support |-> 1, refute |-> 0, unclear |-> 0]
               /\ users[a].reputation = 22
        /\ C4_AfterB(c, a, b) =>
               /\ compute_verdict(c) = [label |-> "Mostly True", confidence |-> 537,
                                        support |-> 1, refute |-> 1, unclear |-> 0]
               /\ users[a].reputation = 22
               /\ users[b].reputation = 19

\* C4 as stated: after B's refute the weights tie and the confidence is 0.5
C4_ScenarioAsStated ==
    \A c \in DOMAIN claims, a, b \in DOMAIN users :
        /\ C4_AfterA(c, a) =>
               /\ compute_verdict(c).label = "Mostly True"
               /\ compute_verdict(c).confidence = 1000
        /\ C4_AfterB(c, a, b) =>
               /\ C1_Weight(c, "support") = C1_Weight(c, "refute")
               /\ compute_verdict(c).confidence = 500

\* the scenario has run and get_verdict has answered after B's refute
C4_Witness ==
    \E c \in DOMAIN claims, a, b \in DOMAIN users :
        /\ C4_AfterB(c, a, b)
        /\ response = [op |-> "claim_verdict", claim_id |-> c, status |-> 200,
                       body |-> [label |-> "Mostly True", confidence |-> 537,
                                 support |-> 1, refute |-> 1, unclear |-> 0]]

\* ------------------------------------------------------------------------
\* C8: add_verification with a claim_id that matches no claim is rejected
\* with 404 and, without a token, with an author_id that matches no user
\* with 400; neither inserts a verification nor changes a reputation.
\* ------------------------------------------------------------------------
C8_Step ==
    \A s \in Slots, c \in ClaimIds \cup {BadId}, a \in UserIds \cup {BadId}, st \in Stances :
        (add_verification(s, c, a, st) /\ (c \notin DOMAIN claims \/ a \notin DOMAIN users))
            => /\ response'.op = "add_verification"
               /\ response'.status = IF c \notin DOMAIN claims THEN 404 ELSE 400
               /\ verifications' = verifications
               /\ users' = users
               /\ claims' = claims
               /\ req' = req

C8_RejectsUnknownIds == [][C8_Step]_vars

\* a verify request with an unknown author was rejected on a ledger that
\* already holds a verification
C8_Witness ==
    /\ response.op = "add_verification" /\ response.status = 400
    /\ Len(verifications) = 1

\* ------------------------------------------------------------------------
\* C9: compute_verdict has no side effects and is idempotent: no step of a
\* verdict read changes the ledger, a claim or a reputation, every answer
\* is the verdict of the stored state, and an answer that follows another
\* answer for the same claim with no write in between is identical to it.
\* ------------------------------------------------------------------------
C9_NoSideEffect == UNCHANGED <<users, claims, verifications>>

C9_Answered(r) == r.op = "claim_verdict" /\ r.status = 200

C9_SameAnswer ==
    (C9_Answered(response) /\ C9_Answered(response')
        /\ response'.claim_id = response.claim_id)
        => response'.body = response.body

C9_AnswerOfState ==
    C9_Answered(response) => response.body = compute_verdict(response.claim_id)

C9_PureAndIdempotent ==
    /\ []C9_AnswerOfState
    /\ [][C9_NoSideEffect /\ C9_SameAnswer]_vars

\* get_verdict has answered on a ledger of three verifications and a
\* second read of the same claim is on its last reputation
C9_Witness ==
    /\ C9_Answered(response)
    /\ response.body.support + response.body.refute + response.body.unclear = 3
    /\ \E s \in Slots : /\ req[s].pc = "rep"
                        /\ req[s].claim_id = response.claim_id
                        /\ req[s].i = 3

\* ------------------------------------------------------------------------
\* C10: once every add_verification has completed, each user's reputation
\* is 1.0 + 0.1*a - 0.05*m with a + m the number of verifications the user
\* authored: one delta per stored verification, none lost, under every
\* interleaving.
\* ------------------------------------------------------------------------
C10_Authored(u) ==
    Cardinality({i \in 1..Len(verifications) : verifications[i].author_id = u})

C10_OneDeltaPerVerification ==
    Quiet =>
        \A u \in DOMAIN users :
            \E a \in 0..C10_Authored(u) :
                users[u].reputation = 20 + 2 * a - (C10_Authored(u) - a)

\* two verifications of one user have both been judged, one of them
\* against the other user's
C10_Witness ==
    /\ Quiet
    /\ \E u \in DOMAIN users : C10_Authored(u) = 2 /\ users[u].reputation = 24

\* ------------------------------------------------------------------------
\* C11: every response that shows the support_count, refute_count,
\* unclear_count and confidence of a claim (the claim list, the claim
\* detail, the detailed claim) shows the values of compute_verdict at
\* response time, never the values stored in the claim document.
\* ------------------------------------------------------------------------
C11_Fresh(shown, verdict) ==
    /\ shown.support_count = verdict.support
    /\ shown.refute_count  = verdict.refute
    /\ shown.unclear_count = verdict.unclear
    /\ shown.confidence    = verdict.confidence

\* the request of slot s, a read by handler op, sends its response
C11_Responds(s, op) ==
    /\ req[s].op = op /\ req[s].pc # "idle" /\ req'[s].pc = "idle"
    /\ response'.op = op /\ response'.status = 200

C11_ListShowsFresh ==
    \A s \in Slots :
        C11_Responds(s, "list_claims") =>
            \A i \in 1..Len(response'.body), c \in DOMAIN claims :
                response'.body[i].id = c =>
                    C11_Fresh(response'.body[i], compute_verdict(c)')

C11_DetailShowsFresh ==
    \A s \in Slots, op \in {"get_claim", "get_detailed_claim"}, c \in DOMAIN claims :
        (C11_Responds(s, op) /\ response'.claim_id = c) =>
            C11_Fresh(response'.body.claim, compute_verdict(c)')

C11_NeverStale == [][C11_ListShowsFresh /\ C11_DetailShowsFresh]_vars

\* ------------------------------------------------------------------------
\* C12: both leaderboards measure alignment against the verdict computed
\* at query time: a user's accuracy is the share (shown with 3 decimals) of
\* the user's verifications whose stance is the stance of the current
\* verdict of their claim, 0 for a user without verifications; a domain's
\* reliability is the same share over the verifications citing the domain.
\* ------------------------------------------------------------------------
\* record i agrees with the verdict its claim has now
C12_AgreesNow(i) ==
    verifications[i].stance = C2_StanceOfLabel(compute_verdict(verifications[i].claim_id).label)

\* `shown`, in thousandths, is the share of `part` in `whole`, 0 of nothing
C12_IsShare(shown, part, whole) ==
    IF whole = {} THEN shown = 0
    ELSE 2 * Abs(1000 * Cardinality(part) - shown * Cardinality(whole)) <= Cardinality(whole)

C12_UserAccuracy ==
    response.op = "leaderboard_users" =>
        \A k \in 1..Len(response.body) :
            LET row  == response.body[k]
                mine == {i \in 1..Len(verifications) : verifications[i].author_id = row.id}
            IN  /\ row.verifications = Cardinality(mine)
                /\ C12_IsShare(row.accuracy, {i \in mine : C12_AgreesNow(i)}, mine)

C12_SourceReliability ==
    response.op = "leaderboard_sources" =>
        \A k \in 1..Len(response.body) :
            LET row    == response.body[k]
                citing == {i \in 1..Len(verifications) :
                              /\ verifications[i].source_url.given
                              /\ Lower(verifications[i].source_url.netloc) = row.domain}
            IN  /\ row.samples = Cardinality(citing)
                /\ C12_IsShare(row.reliability, {i \in citing : C12_AgreesNow(i)}, citing)

C12_AlignedAtQueryTime == C12_UserAccuracy /\ C12_SourceReliability

\* a leaderboard has answered on a ledger whose first record agreed with
\* the verdict when it was submitted and disagrees with the verdict now
C12_Witness ==
    /\ response.op = "leaderboard_users" /\ Len(response.body) = 2
    /\ Len(verifications) = 2
    /\ verifications[1].stance = "support" /\ ~C12_AgreesNow(1)
    /\ \E k \in 1..2 : /\ response.body[k].id = verifications[1].author_id
                       /\ response.body[k].accuracy = 0

\* ------------------------------------------------------------------------
\* C13: leaderboard_users(limit) returns its rows in descending
\* lexicographic order of (reputation, accuracy, verifications) and
\* leaderboard_sources(limit) of (reliability, samples); each returns the
\* first `limit` rows of that order and never more than `limit` rows.
\* ------------------------------------------------------------------------
C13_NotBelow(a, b) ==
    \/ a = b
    \/ \E k \in 1..Len(a) : a[k] > b[k] /\ \A j \in 1..(k - 1) : a[j] = b[j]

C13_UserKey(row) == <<row.reputation, row.accuracy, row.verifications>>
C13_SourceKey(row) == <<row.reliability, row.samples>>

C13_Min(a, b) == IF a < b THEN a ELSE b

C13_UsersStep(limit) ==
    leaderboard_users(limit) =>
        LET body == response'.body
        IN  /\ \A j, k \in 1..Len(body) :
                   j < k => C13_NotBelow(C13_UserKey(body[j]), C13_UserKey(body[k]))
            /\ Len(body) <= limit
            /\ Len(body) = C13_Min(limit, Cardinality(DOMAIN users))
            /\ \A u \in DOMAIN users :
                   \/ \E k \in 1..Len(body) : body[k] = UserRow(u)
                   \/ \A k \in 1..Len(body) :
                          C13_NotBelow(C13_UserKey(body[k]), C13_UserKey(UserRow(u)))

C13_Domains ==
    {Lower(verifications[i].source_url.netloc) :
        i \in {j \in 1..Len(verifications) : /\ verifications[j].source_url.given
                                              /\ verifications[j].source_url.netloc # ""}}

C13_SourcesStep(limit) ==
    leaderboard_sources(limit) =>
        LET body == response'.body
        IN  /\ \A j, k \in 1..Len(body) :
                   j < k => C13_NotBelow(C13_SourceKey(body[j]), C13_SourceKey(body[k]))
            /\ Len(body) <= limit
            /\ Len(body) = C13_Min(limit, Cardinality(C13_Domains))
            /\ \A d \in C13_Domains :
                   \/ \E k \in 1..Len(body) : body[k] = SourceRow(d)
                   \/ \A k \in 1..Len(body) :
                          C13_NotBelow(C13_SourceKey(body[k]), C13_SourceKey(SourceRow(d)))

C13_SortedAndLimited ==
    [][\A limit \in Limits : C13_UsersStep(limit) /\ C13_SourcesStep(limit)]_vars

\* ------------------------------------------------------------------------
\* C14: when a request to create a claim or a verification carries a valid
\* token, the stored document's author_id is the id of the token's user,
\* and the author_id of the body is neither used nor validated.
\* ------------------------------------------------------------------------
\* the token is accepted and names a stored user
C14_Valid(token) == token.given /\ token.ok /\ token.sub \in DOMAIN users

C14_ClaimStep ==
    \A token \in Tokens, a \in UserIds \cup {BadId} :
        (create_claim_with(token, a) /\ C14_Valid(token)) =>
            /\ response'.status = 200
            /\ \E c \in DOMAIN claims' \ DOMAIN claims : claims'[c].author_id = token.sub

C14_VerificationStep ==
    \A s \in Slots, token \in Tokens, c \in DOMAIN claims, a \in UserIds \cup {BadId},
       st \in Stances :
        (add_verification_with(s, token, c, a, st) /\ C14_Valid(token)) =>
            /\ Len(verifications') = Len(verifications) + 1
            /\ verifications'[Len(verifications')] =
                   [claim_id |-> c, author_id |-> token.sub, stance |-> st]

C14_TokenDecidesAuthor == [][C14_ClaimStep /\ C14_VerificationStep]_vars

\* a verification sent with the token of a user and a body author_id that
\* names nobody is stored under the user of the token and has been judged
C14_Witness ==
    \E s \in Slots :
        /\ req[s].pc = "update"
        /\ req[s].body_author_id = BadId
        /\ req[s].author_id \in DOMAIN users
        /\ verifications[Len(verifications)].author_id = req[s].author_id
        /\ \E c \in DOMAIN claims : claims[c].author_id = req[s].author_id

\* ------------------------------------------------------------------------
\* C15: after any sequence of register requests, each run to completion,
\* no two stored users share an email (compared lowercased) or a username;
\* a registration whose email or username is taken is rejected with 400
\* and leaves the user store unchanged.
\* ------------------------------------------------------------------------
C15_NoDuplicates ==
    \A u, v \in DOMAIN users :
        u # v => /\ Lower(users[u].email) # Lower(users[v].email)
                 /\ users[u].username # users[v].username

\* the registration in slot s asks for an email or a username that a
\* stored user has
C15_Taken(s) ==
    \E u \in DOMAIN users :
        \/ Lower(users[u].email) = Lower(req[s].email)
        \/ users[u].username = req[s].username

C15_TakenNeverInserts ==
    \A s \in Slots : req[s].pc = "reg_insert" => ~C15_Taken(s)

C15_RejectStep ==
    \A s \in Slots :
        (req[s].pc \in {"reg_email", "reg_username"} /\ C15_Taken(s)
            /\ req'[s] # req[s]) =>
            /\ \/ /\ response' = [op |-> "register_user", claim_id |-> "", status |-> 400,
                                  body |-> NoVerdict]
                  /\ req'[s].pc = "idle"
               \/ /\ req[s].pc = "reg_email" /\ req'[s].pc = "reg_username"
                  /\ \A u \in DOMAIN users : Lower(users[u].email) # Lower(req[s].email)
            /\ users' = users

C15_UniqueUsers ==
    /\ [](C15_NoDuplicates /\ C15_TakenNeverInserts)
    /\ [][C15_RejectStep]_vars

\* with one user stored, a registration under the same address typed in
\* another case has been rejected
C15_Witness ==
    /\ Quiet
    /\ \E u \in DOMAIN users : users[u].email = "ann@x.org" /\ users[u].username = "bob"
    /\ Cardinality(DOMAIN users) = 1
    /\ response.op = "register_user" /\ response.status = 400

\* ------------------------------------------------------------------------
\* C16, as amended: two concurrent record_verification requests on the
\* same claim never both compute their feedback verdict from a set that
\* misses the other's record, as long as the claim has at most 1000
\* verifications: each inserts before it rereads, so at least one of them
\* rereads both records; only the one that reread before the other's
\* insert misses the other's record.
\* ------------------------------------------------------------------------
\* slot s holds a record_verification that has reread the verifications
C16_HasReread(s) == req[s].op = "verify" /\ req[s].pc \in {"rep", "update"}

\* the number of records in the set the request of slot s computes from
C16_Seen(s) ==
    IF req[s].pc = "rep" THEN Len(req[s].verifs)
    ELSE req[s].current.support + req[s].current.refute + req[s].current.unclear

\* both slots hold requests on claim c that are past their reread
C16_Concurrent(s, t, c) ==
    /\ s # t
    /\ C16_HasReread(s) /\ C16_HasReread(t)
    /\ req[s].claim_id = c /\ req[t].claim_id = c

C16_RereadStep ==
    \A s, t \in Slots :
        (/\ s # t
         /\ req[s].op = "verify" /\ req[s].pc = "fetch" /\ req'[s].pc # "fetch"
         /\ req[t].op = "verify" /\ req[t].pc \in {"fetch", "rep", "update"}
         /\ req[t].claim_id = req[s].claim_id)
            => C16_Seen(s)' < Cardinality(RecordsOf(req[s].claim_id))

C17_Reputations == (InitialReputation - (MaxVerifs + 1))..(InitialReputation + 2 * (MaxVerifs + 1))

C17_Stores == [DOMAIN users -> {[reputation |-> r] : r \in C17_Reputations}]

\* compute_verdict returns in this step to the request of slot s
C17_Returns(s) ==
    /\ req[s].pc = "rep" /\ req[s].i = Len(req[s].verifs)
    /\ req'[s].pc # "rep"

C17_Returned(s) ==
    IF req[s].op = "verify" THEN req'[s].current ELSE response'.body

C17_ReturnStep ==
    \A s \in Slots :
        C17_Returns(s) =>
            \E store \in C17_Stores : VerdictOver(req[s].verifs, store) = C17_Returned(s)

C17_OneStoreState == [][C17_ReturnStep]_vars

\* ------------------------------------------------------------------------
\* C18: the verdict that judges a newly submitted verification is always
\* computed from a verification set that already contains that
\* verification, under every interleaving with other requests.
\* ------------------------------------------------------------------------
\* the records of the request's claim up to and including its own
C18_UpToOwn(s) ==
    {i \in RecordsOf(req[s].claim_id) : i <= req[s].doc_id}

C19_Abandoned(s) ==
    /\ req[s].op = "verify"
    /\ req'[s].pc = "idle"
    /\ \/ req[s].pc \in {"fetch", "rep"}
       \/ /\ req[s].pc = "update"
          /\ users'[req[s].author_id] = users[req[s].author_id]

C19_AbandonStep ==
    \A s \in Slots :
        C19_Abandoned(s) =>
            /\ users' = users
            /\ verifications' = verifications
            /\ response' = response
            /\ verifications[req[s].doc_id].author_id = req[s].author_id
            /\ req[s].doc_id \in RecordsOf(req[s].claim_id)

\* get_verdict answers in this step
C19_VerdictStep ==
    \A s \in Slots, c \in DOMAIN claims :
        (req[s].op = "verdict" /\ req[s].claim_id = c /\ req[s].pc # "idle"
            /\ req'[s].pc = "idle") =>
            /\ response'.body.support + response'.body.refute + response'.body.unclear
                   = Cardinality(RecordsOf(c))
            /\ response'.body.label = "Unverified" <=> RecordsOf(c) = {}

C19_ValidState ==
    /\ \A c \in DOMAIN claims :
           /\ compute_verdict(c).support + compute_verdict(c).refute
                  + compute_verdict(c).unclear = Cardinality(RecordsOf(c))
           /\ compute_verdict(c).label = "Unverified" <=> RecordsOf(c) = {}
    /\ Quiet =>
           \A u \in DOMAIN users :
               \E a, m \in 0..C10_Authored(u) :
                   /\ a + m <= C10_Authored(u)
                   /\ users[u].reputation = 20 + 2 * a - m

C19_AbandonIsSafe ==
    /\ []C19_ValidState
    /\ [][C19_AbandonStep /\ C19_VerdictStep]_vars

\* get_verdict has counted a verification whose request was abandoned: the
\* ledger holds it and its author still stands at 1.0
C19_Witness ==
    /\ Quiet
    /\ Len(verifications) = 1
    /\ users[verifications[1].author_id].reputation = 20
    /\ response.op = "claim_verdict" /\ response.status = 200
    /\ response.body.support + response.body.refute + response.body.unclear = 1

\* ------------------------------------------------------------------------
\* C20: for every claim with a non-empty verification set, in every
\* reachable state, the total weight across the three stances is not zero,
\* so that compute_verdict never substitutes 1.0 for it.
\* ------------------------------------------------------------------------
C20_TotalNeverZero ==
    \A store \in {Replay(Settled)} :
        \A c \in DOMAIN claims :
            RecordsOf(c) # {} => FloatTotal(c, store) # FloatZero

\* ------------------------------------------------------------------------
\* C21: compute_verdict does not fail on a record whose author has no user
\* document or whose user document has no reputation: the record is
\* weighted 1.0 and counted, and a verdict is returned.
\* ------------------------------------------------------------------------
\* the author of the record resolves to a reputation
C21_Resolved(user_id) ==
    user_id \in DOMAIN users /\ "reputation" \in DOMAIN users[user_id]

\* the store with 1.0 written for every author that does not resolve
C21_Defaulted ==
    [u \in UserIds |->
        [reputation |-> IF C21_Resolved(u) THEN users[u].reputation
                        ELSE InitialReputation]]

C21_UnresolvedWeighOne ==
    /\ \A s \in Slots : req[s].pc = "rep" => ENABLED ComputeRep(s)
    /\ \A c \in DOMAIN claims :
           (response.op = "claim_verdict" /\ response.claim_id = c
                /\ response.status = 200) =>
               /\ response.body = VerdictOver(FindVerifications(verifications, c),
                                              C21_Defaulted)
               /\ response.body.support + response.body.refute + response.body.unclear
                      = Cardinality(RecordsOf(c))

\* a verdict returned over the record of an absent author and the record of
\* an author without reputation: one of each is counted and they tie at 0.5
C21_Witness ==
    /\ response.op = "claim_verdict" /\ response.status = 200
    /\ response.body.label = "Mostly False" /\ response.body.confidence = 500
    /\ response.body.refute = 1 /\ response.body.unclear = 1
    /\ Len(verifications) = 2
    /\ \E i, j \in 1..2 :
           /\ verifications[i].author_id \notin DOMAIN users
           /\ verifications[i].stance = "refute"
           /\ verifications[j].author_id \in DOMAIN users
           /\ ~C21_Resolved(verifications[j].author_id)
           /\ verifications[j].stance = "unclear"

\* ------------------------------------------------------------------------
\* C22: verifications are not deduplicated: when one user submits k
\* verifications on one claim all k are stored, each adds 1 to the count of
\* its stance and the user's current reputation to the weight of its
\* stance, and each triggers its own reputation delta.
\* ------------------------------------------------------------------------
\* the stored verifications of the claim by the user with the stance
C22_Stored(c, u, st) ==
    Cardinality({i \in RecordsOf(c) : /\ verifications[i].author_id = u
                                       /\ verifications[i].stance = st})

\* the weight of the stance when each of them weighs the user's reputation
C22_Weight(c, st) ==
    C22_Stored(c, Backer, st) * get_user_rep(users, Backer)
        + C22_Stored(c, Dissenter, st) * get_user_rep(users, Dissenter)

C22_Total(c) ==
    LET sum == C22_Weight(c, "support") + C22_Weight(c, "refute") + C22_Weight(c, "unclear")
    IN  IF sum = 0 THEN ZeroTotalWeight ELSE sum

\* every accepted request has left its own record
C22_AllStored ==
    [][\A s \in Slots :
          (req[s].pc = "idle" /\ req'[s].op = "verify") =>
              /\ Len(verifications') = Len(verifications) + 1
              /\ SubSeq(verifications', 1, Len(verifications)) = verifications]_vars

C22_EachCounted ==
    \A c \in DOMAIN claims :
        LET verdict == compute_verdict(c)
        IN  /\ verdict.support = C22_Stored(c, Backer, "support")
                                     + C22_Stored(c, Dissenter, "support")
            /\ verdict.refute = C22_Stored(c, Backer, "refute")
                                    + C22_Stored(c, Dissenter, "refute")
            /\ verdict.unclear = C22_Stored(c, Backer, "unclear")
                                     + C22_Stored(c, Dissenter, "unclear")
            /\ RecordsOf(c) # {} =>
                   verdict.confidence =
                       Round3(C22_Weight(c, AlignKey(verdict.label)), C22_Total(c))
            /\ \A s \in Slots :
                   (req[s].pc = "update" /\ req[s].claim_id = c) => req[s].current = verdict

C22_EachJudged ==
    Quiet =>
        \A u \in DOMAIN users :
            \E a \in 0..C10_Authored(u) :
                users[u].reputation = 20 + 2 * a - (C10_Authored(u) - a)

C22_NotDeduplicated ==
    /\ C22_AllStored
    /\ [](C22_EachCounted /\ C22_EachJudged)

\* the dissenter has refuted the claim three times: three records, three in
\* the refute count, three penalties
C22_Witness ==
    /\ Quiet
    /\ Dissenter \in DOMAIN users
    /\ \E c \in DOMAIN claims :
           /\ C22_Stored(c, Dissenter, "refute") = 3
           /\ C10_Authored(Dissenter) = 3
           /\ compute_verdict(c).refute = 3
           /\ users[Dissenter].reputation = 17

\* ------------------------------------------------------------------------
\* C23: a successful record_verification only appends one verification and
\* adjusts the reputation of that record's author: every claim document,
\* every other user's reputation and every existing verification stay as
\* they are, and no operation removes or alters a stored verification.
\* ------------------------------------------------------------------------
\* slot s takes a step of a record_verification in this step
C23_Steps(s) ==
    /\ req'[s] # req[s]
    /\ req[s].op = "verify" \/ req'[s].op = "verify"

\* the ledger only grows, by one record at most, at its end
C23_AppendOnly ==
    /\ Len(verifications') \in {Len(verifications), Len(verifications) + 1}
    /\ SubSeq(verifications', 1, Len(verifications)) = verifications

C23_Frame ==
    /\ C23_AppendOnly
    /\ \A s \in Slots :
           C23_Steps(s) =>
               /\ claims' = claims
               /\ DOMAIN users' = DOMAIN users
               /\ req[s].pc = "idle" =>
                      /\ users' = users
                      /\ Len(verifications') = Len(verifications) + 1
                      /\ verifications'[Len(verifications')].author_id = req'[s].author_id
                      /\ req'[s].doc_id = Len(verifications')
               /\ req[s].pc # "idle" =>
                      /\ verifications' = verifications
                      /\ verifications[req[s].doc_id].author_id = req[s].author_id
                      /\ \A u \in DOMAIN users \ {req[s].author_id} : users'[u] = users[u]
                      /\ req[s].pc # "update" => users' = users
                      /\ req'[s].pc = "idle" =>
                             users'[req[s].author_id] # users[req[s].author_id]

C23_OnlyAppendsAndAdjusts == [][C23_Frame]_vars

\* two requests of one user have succeeded next to a second user and the
\* claim: the second user still stands at 1.0 and the claim document is as
\* it was created
C23_Witness ==
    /\ Quiet
    /\ response.op = "add_verification" /\ response.status = 200
    /\ Len(verifications) = 2
    /\ \E a, b \in DOMAIN users :
           /\ a # b
           /\ \A i \in 1..2 : verifications[i].author_id = a
           /\ users[a].reputation = 24
           /\ users[b].reputation = 20
    /\ \A c \in DOMAIN claims : claims[c] = NewClaim(claims[c].author_id)


\* ------------------------------------------------------------------------
\* C24: on a chain built by the service's own calls alone,
\* verify_chain_integrity returns true: every block's stored hash is the
\* hash of its other fields and its previous_hash is the hash of the block
\* before it.
\* ------------------------------------------------------------------------
C24_IntegrityHolds == verify_chain_integrity(blockchain)

\* ------------------------------------------------------------------------
\* C25: the chain is an append-only linked log.  It starts with the genesis
\* block; every call appends exactly one block that holds exactly the
\* transaction of that call, and leaves the pending pool empty; every
\* block's index is its position; every later block's previous_hash is the
\* hash of the block before it; earlier blocks are never changed or removed.
\* ------------------------------------------------------------------------
\* what a call hands to add_transaction, for some arguments of NextChain
C25_Transactions ==
    {WithoutKey(ReputationUpdate(u, InitialReputation, 0, 0, "T1"), "timestamp") :
         u \in UserIds}
    \cup {WithoutKey(ClaimVerification("c1", verifs,
                                       VerdictOver(verifs, [u \in UserIds |-> NewUser]),
                                       "T1"), "timestamp") :
              verifs \in {<<>>, <<NewVerification("c1", Backer, "support")>>}}

C25_IsGenesis(block) ==
    /\ block.index = 0
    /\ block.transactions = <<>>
    /\ block.nonce = 0
    /\ block.previous_hash = "0"

C25_Linked ==
    /\ Len(blockchain.chain) >= 1
    /\ C25_IsGenesis(blockchain.chain[1])
    /\ blockchain.pending_transactions = <<>>
    /\ \A i \in 1..Len(blockchain.chain) : blockchain.chain[i].index = i - 1
    /\ \A i \in 2..Len(blockchain.chain) :
           blockchain.chain[i].previous_hash = blockchain.chain[i - 1].hash

C25_AppendStep ==
    LET n == Len(blockchain.chain)
        appended == blockchain'.chain[n + 1]
    IN  /\ Len(blockchain'.chain) = n + 1
        /\ SubSeq(blockchain'.chain, 1, n) = blockchain.chain
        /\ Len(appended.transactions) = 1
        /\ WithoutKey(WithoutKey(appended.transactions[1], "id"), "timestamp")
               \in C25_Transactions

C25_AppendOnlyLog == /\ []C25_Linked /\ [][C25_AppendStep]_vars

\* a chain of three blocks with both kinds of transaction, one of them mined
\* in more than one round
C25_Witness ==
    /\ Len(blockchain.chain) = 3
    /\ blockchain.chain[2].transactions[1].type = "reputation_update"
    /\ blockchain.chain[3].transactions[1].type = "claim_verification"
    /\ blockchain.chain[3].transactions[1].verification_count = 1
    /\ blockchain.chain[3].nonce = 2
    /\ C25_Linked

\* ------------------------------------------------------------------------
\* C30: the ids that add_transaction assigns are unique over the chain: no
\* two transactions, in whatever blocks, carry the same id.
\* ------------------------------------------------------------------------
C30_Recorded ==
    UNION {{<<i, j>> : j \in 1..Len(blockchain.chain[i].transactions)} :
               i \in 1..Len(blockchain.chain)}

C30_UniqueIds ==
    \A p, q \in C30_Recorded :
        p # q => blockchain.chain[p[1]].transactions[p[2]].id
                     # blockchain.chain[q[1]].transactions[q[2]].id

\* ------------------------------------------------------------------------
\* C26: whenever compute_verdict gives a label other than "Unverified", at
\* least one stored verification of the claim has the stance that the label
\* denotes: the count of the winning stance is at least 1.
\* ------------------------------------------------------------------------
C26_WinnerHasARecord ==
    \A c \in ScriptClaimIds :
        LET verdict == compute_verdict(c)
        IN  verdict.label # "Unverified" => verdict[AlignKey(verdict.label)] >= 1

\* ------------------------------------------------------------------------
\* C27: the first verification of a claim that has none, sent by an author
\* whose reputation is positive, with no other request on that claim in
\* flight, always raises the author's reputation by 0.1, whatever its
\* stance: it is judged against a verdict made of its own record alone.
\* ------------------------------------------------------------------------
\* slot s handles the only verification of claim c, and no other slot c
C27_Alone(s, c) ==
    /\ req[s].op = "verify"
    /\ req[s].claim_id = c
    /\ RecordsOf(c) = {req[s].doc_id}
    /\ \A t \in Slots \ {s} : req[t].pc = "idle" \/ req[t].claim_id # c

\* the verification is stored and nothing of it is judged yet
C27_Submitted(c) ==
    \E s \in Slots :
        /\ req[s].pc = "fetch"
        /\ C27_Alone(s, c)
        /\ get_user_rep(users, req[s].author_id) > 0

\* the verdict it is judged against is computed: the feedback is +0.1
C27_Judged(c) ==
    \A s \in Slots :
        req[s].pc = "update" /\ C27_Alone(s, c)
            => Feedback(req[s].stance, req[s].current) = AlignedDelta

C27_FirstIsRewarded ==
    \A c \in ScriptClaimIds : [](C27_Submitted(c) => []C27_Judged(c))

\* ------------------------------------------------------------------------
\* C28: a verification recorded on claim X never changes the support,
\* refute and unclear counts of another claim Y, and it changes the label or
\* the confidence of Y only if its author has a verification on Y.
\* ------------------------------------------------------------------------
C28_Counts(verdict) == <<verdict.support, verdict.refute, verdict.unclear>>

\* the claim of the add_verification request that slot s takes a step of
C28_ClaimOf(s) ==
    IF req[s].pc = "idle" THEN req'[s].claim_id ELSE req[s].claim_id

C28_AuthorOf(s) ==
    IF req[s].pc = "idle" THEN req'[s].author_id ELSE req[s].author_id

C28_HasRecordOn(user_id, claim_id) ==
    \E i \in RecordsOf(claim_id) : verifications[i].author_id = user_id

C28_Frame ==
    \A s \in Slots, y \in ScriptClaimIds :
        req'[s] # req[s] /\ C28_ClaimOf(s) # y
            => \A before \in {compute_verdict(y)} :
               \A after \in {VerdictOver(FindVerifications(verifications', y), users')} :
                   /\ C28_Counts(after) = C28_Counts(before)
                   /\ after # before => C28_HasRecordOn(C28_AuthorOf(s), y)

C28_OtherClaimsKept == [][C28_Frame]_vars

\* the dissenter's verification of the second claim has been judged: the
\* counts of the first claim are what they were, its confidence has moved
C28_Witness ==
    /\ Quiet
    /\ verifications =
           [i \in 1..4 |-> NewVerification(BackedClaim, Backer, "support")]
           \o <<NewVerification(BackedClaim, Dissenter, "refute"),
                NewVerification(OtherClaim, Dissenter, "support")>>
    /\ compute_verdict(BackedClaim) =
           [label |-> "Mostly True", confidence |-> 842,
            support |-> 4, refute |-> 1, unclear |-> 0]
    /\ VerdictOver(FindVerifications(verifications, BackedClaim),
                   IncReputation(users, Dissenter, -AlignedDelta)).confidence = 855

\* ------------------------------------------------------------------------
\* C29: a verification in the name of a registered user is only ever
\* created by a request that carries a valid token of that user: a request
\* with no token, or with an invalid one, cannot record a verification in a
\* registered user's name.
\* ------------------------------------------------------------------------
\* a user document written by register_user
C29_Registered(user_id) ==
    user_id \in DOMAIN users /\ "email" \in DOMAIN users[user_id]

\* the verify requests whose token names no user
C29_Unauthenticated ==
    {token \in Tokens : get_current_user(token) = NoUser}

C29_Step ==
    \A s \in Slots, token \in C29_Unauthenticated,
       c \in ClaimIds \cup {BadId}, a \in UserIds \cup {BadId}, st \in Stances :
        add_verification_with(s, token, c, a, st) /\ verifications' # verifications
            => ~C29_Registered(verifications'[Len(verifications')].author_id)

C29_TokenNeededForMembers == [][C29_Step]_vars

=============================================================================
